---- MODULE Spec2Model ----
(***************************************************************************)
(* The mock PLC ADS server of src/src/server/adsServer.ts: the sensor map, *)
(* the waveform generator, the eight request handlers, the value refresher *)
(* and the notification scheduler, and the start-up retry loop.            *)
(*                                                                         *)
(* Numbers.  Sensor values are fixed-point numbers counted in halves       *)
(* (Fx(50) is 50.0, Fx(50) + 1 is 50.5).  A float32 is taken to resolve    *)
(* whole numbers only, so Buffer.writeFloatLE rounds a stored double to    *)
(* the nearest whole number and readFloatLE always yields a whole number.  *)
(* Angles are counted in eighths of a turn, the wall clock of the waveform *)
(* in steps of (pi/4)/0.0005 seconds, so that frequency * time is a whole  *)
(* number of eighths; 1.57 is taken as a quarter turn and sin is tabulated *)
(* to one decimal.  Math.random() is counted in twentieths.  The clock of  *)
(* the timers (now) is counted in scheduler periods of 100 ms.             *)
(***************************************************************************)
EXTENDS Integers, Sequences, FiniteSets, TLC

VARIABLES
    supabase,       \* TRUE when the optional datastore client was loaded
    sensorDataMap,  \* key <<group, offset>> -> SensorData, for the keys present
    subscribers,    \* the current subscribers array: a sequence of object refs
    heap,           \* ref -> NotificationSubscriber object
    nextHandle,     \* next notification handle
    nextRef,        \* next object ref (objects are never moved or copied)
    now,            \* Date.now(), in scheduler periods
    rng,            \* position of Math.random() in its stream
    pc,             \* where startServer stands
    retries,        \* startServer: attempts left
    portIndex,      \* startServer: index of the candidate port (0-based)
    port,           \* server.settings.listeningTcpPort
    refreshers,     \* number of setInterval(updateSensorData, ...) timers
    ticks,          \* scheduler callbacks suspended in a send
    writers,        \* Write handlers suspended in the datastore insert
    resp,           \* what the step just taken answered (history)
    pushed,         \* the notification the step just taken sent, if any (history)
    sent,           \* ref -> the last two send times of its notifications (history)
    issued,         \* the handles AddNotification returned, in order (history)
    created,        \* the times at which they were returned, in order (history)
    deleted,        \* the handles whose DeleteNotification was acknowledged (history)
    origin,         \* key -> what set the sensor's value last, and to what (history)
    lastRefresh,    \* wall-clock sample of the latest refresh (history)
    failed,         \* the refs whose latest settled delivery failed (history)
    probe,          \* the call of a function made on its own, and its result
    config,         \* ConfigLoader.config of the server's and of the client's loader
    db,             \* the datastore's tables plc_modules and sensors
    initializers,   \* the invocations of ModuleInitializer.initializeFromConfig
    startup         \* the steps of start-up in the order they were first taken (history)

vars == <<supabase, sensorDataMap, subscribers, heap, nextHandle, nextRef, now, rng,
          pc, retries, portIndex, port, refreshers, ticks, writers, resp, pushed,
          sent, issued, created, deleted, origin, lastRefresh, failed, probe, config, db,
          initializers, startup>>

registryVars == <<sensorDataMap, rng, origin, lastRefresh>>
subscriberVars ==
    <<subscribers, heap, nextHandle, nextRef, ticks, sent, issued, created, deleted, failed>>
bootVars == <<pc, retries, portIndex, port, refreshers, startup>>
clientVars == <<db, initializers>>
otherVars == <<probe, config, clientVars>>

(***************************************************************************)
(* Bounds of the model.                                                    *)
(***************************************************************************)
MaxPhase == 3        \* wall-clock samples 0..MaxPhase of the waveform time
MaxTime == 2         \* scheduler periods the clock may advance
MaxSubs == 2         \* AddNotification requests that may succeed
MaxInFlight == 2     \* scheduler callbacks that may be suspended at once
MaxWrites == 1       \* Write requests that may be in the datastore insert at once
MaxCycleTime == 2    \* longest cycle time of a subscription, in scheduler periods
MaxGroup == 6        \* index groups a request may name
MaxOffset == 4       \* index offsets a request may name
MaxInvocations == 2  \* invocations of initializeFromConfig

Loaders == {"server", "client"}      \* the two ConfigLoader classes
NULL == <<>>                           \* a nullable number is <<>> or <<n>>
Some(n) == <<n>>
SamplePhases == 0..MaxPhase
RandStream == <<0, 11, 19>>           \* successive Math.random() results, in twentieths

Fx(n) == n + n                         \* the number n in halves

\* Math.sin at k eighths of a turn, in tenths.
Sin8(k) ==
    LET t == <<0, 7, 10, 7, 0, -7, -10, -7>>
    IN  t[(k % 8) + 1]

\* Buffer.writeFloatLE followed by the client's readFloatLE: the stored double
\* rounded to the nearest float32 (ties to even).
writeFloatLE(v) ==
    IF v % 2 = 0 THEN v
    ELSE IF (v + 1) % 4 = 0 THEN v + 1 ELSE v - 1

\* The float32 values a Write payload of four bytes or more may carry.
WriteValues == {Fx(100), Fx(150)}
\* Lengths of a Write payload: empty, or one float.
WriteLengths == {0, 4}

(***************************************************************************)
(* generateSensorValue (adsServer.ts 50-75), at wall-clock sample time and *)
(* with rnd the result of Math.random() (read by the noise pattern only).  *)
(***************************************************************************)
\* RawSensorValue with the random term of the noise pattern (62) added to the sine
\* as well.
RawSensorValueJittered(sensor, time, rnd) ==
    LET cfg == sensor.pattern_config
        s == Sin8(cfg.frequency * time + cfg.phase_offset)
    IN  CASE sensor.data_pattern \in {"sine", "noise"} ->
                cfg.dc_offset + (cfg.amplitude * s) \div 10
                    + ((rnd - 10) * cfg.amplitude) \div 100
          [] sensor.data_pattern = "square" ->
                cfg.dc_offset + (IF s > 0 THEN cfg.amplitude ELSE -cfg.amplitude)
          [] OTHER -> cfg.dc_offset

RawSensorValue(sensor, time, rnd) ==
    LET cfg == sensor.pattern_config
        s == Sin8(cfg.frequency * time + cfg.phase_offset)
    IN  CASE sensor.data_pattern = "sine" ->
                cfg.dc_offset + (cfg.amplitude * s) \div 10
          [] sensor.data_pattern = "noise" ->
                cfg.dc_offset + (cfg.amplitude * s) \div 10
                    + ((rnd - 10) * cfg.amplitude) \div 100
          [] sensor.data_pattern = "square" ->
                cfg.dc_offset + (IF s > 0 THEN cfg.amplitude ELSE -cfg.amplitude)
          [] OTHER -> cfg.dc_offset

\* ApplyConstraints applying the bounds only when the sensor has both.
ApplyConstraintsBothOnly(sensor, value) ==
    IF sensor.min_value = NULL \/ sensor.max_value = NULL THEN value
    ELSE IF value < sensor.min_value[1] THEN sensor.min_value[1]
    ELSE IF value > sensor.max_value[1] THEN sensor.max_value[1]
    ELSE value

\* ApplyConstraints without the test of 71.
ApplyConstraintsNoMin(sensor, value) ==
    IF sensor.max_value # NULL /\ value > sensor.max_value[1]
    THEN sensor.max_value[1] ELSE value

\* ApplyConstraints without the test of 72.
ApplyConstraintsNoMax(sensor, value) ==
    IF sensor.min_value # NULL /\ value < sensor.min_value[1]
    THEN sensor.min_value[1] ELSE value

ApplyConstraints(sensor, value) ==
    LET v1 == IF sensor.min_value # NULL /\ value < sensor.min_value[1]
              THEN sensor.min_value[1] ELSE value
    IN  IF sensor.max_value # NULL /\ v1 > sensor.max_value[1]
        THEN sensor.max_value[1] ELSE v1

generateSensorValue(sensor, time, rnd) ==
    ApplyConstraints(sensor, RawSensorValue(sensor, time, rnd))

(***************************************************************************)
(* The sensor map.  Object.values visits the keys in insertion order; the  *)
(* only thing that depends on the order is which Math.random() result a    *)
(* noise sensor gets, and the keys are taken in the order of KeyRank.      *)
(***************************************************************************)
KeyRank(key) == key[1] * (MaxOffset + MaxGroup + 1) + key[2]

NoiseKeysBefore(map, key) ==
    {k \in DOMAIN map : map[k].data_pattern = "noise" /\ KeyRank(k) < KeyRank(key)}

RandAt(pos) == RandStream[(pos % Len(RandStream)) + 1]

NoiseCount(map) == Cardinality({k \in DOMAIN map : map[k].data_pattern = "noise"})

\* updateSensorData (165-170) at wall-clock sample time, clock at, stream position pos.
updateSensorData(map, time, at, pos) ==
    [k \in DOMAIN map |->
        [map[k] EXCEPT
            !.value = generateSensorValue(map[k], time,
                          RandAt(pos + Cardinality(NoiseKeysBefore(map, k)))),
            !.timestamp = at]]

\* createMockSensorData (138-162): the map with the 5 x 3 mock sensors put in.
MockSensor(module, sensor, at) ==
    [ id |-> <<"mock", module, sensor>>,
      module_id |-> <<"mock-module", module>>,
      data_pattern |-> IF sensor = 1 THEN "sine"
                       ELSE IF sensor = 2 THEN "noise" ELSE "square",
      pattern_config |-> [ amplitude |-> Fx(30 + sensor * 10),
                           frequency |-> 2 + sensor,
                           phase_offset |-> 2 * sensor,
                           dc_offset |-> Fx(50 + sensor * 10) ],
      min_value |-> Some(Fx(0)),
      max_value |-> Some(Fx(100)),
      value |-> Fx(0),
      timestamp |-> at ]

\* The loop of 141 ending one module early.
MockKeysOneShort == (1..4) \X (1..3)

MockKeys == (1..5) \X (1..3)

createMockSensorData(map, at) ==
    [k \in (DOMAIN map) \cup MockKeys |->
        IF k \in MockKeys THEN MockSensor(k[1], k[2], at) ELSE map[k]]

(***************************************************************************)
(* initializeSensorData (78-135).  The rows the datastore may return: each *)
(* module of the datastore has three sensors, and the select states no     *)
(* order.                                                                  *)
(***************************************************************************)
DbRow(m, n, pattern, lo, hi) ==
    [ id |-> <<"db", m, n>>, module_id |-> <<"db-module", m>>,
      data_pattern |-> pattern, min_value |-> lo, max_value |-> hi ]

OneModuleRows ==
    << DbRow(1, 1, "sine", Some(Fx(60)), Some(Fx(80))),
       DbRow(1, 2, "noise", NULL, NULL),
       DbRow(1, 3, "square", Some(Fx(20)), NULL) >>

TwoModuleRows ==
    OneModuleRows \o
    << DbRow(2, 1, "sine", Some(Fx(0)), Some(Fx(100))),
       DbRow(2, 2, "noise", Some(Fx(0)), Some(Fx(54))),
       DbRow(2, 3, "square", Some(Fx(0)), Some(Fx(100))) >>

DbRowSets == {OneModuleRows, TwoModuleRows}

\* moduleIdToIndex.get(rows[i].module_id) after the forEach reached row i (93-97).
ModuleIndexOf(rows, i) ==
    LET first == CHOOSE j \in 1..i :
                    /\ rows[j].module_id = rows[i].module_id
                    /\ \A l \in 1..(j - 1) : rows[l].module_id # rows[i].module_id
    IN  Cardinality({rows[j].module_id : j \in 1..first})

\* sensorIdToIndex.get(rows[i].id): sensorIndex counts the rows and is never reset (98).
SensorIndexOf(rows, i) == i

SensorKey(rows, i) == <<ModuleIndexOf(rows, i), SensorIndexOf(rows, i)>>

DbSensor(row, at) ==
    [ id |-> row.id,
      module_id |-> row.module_id,
      data_pattern |-> row.data_pattern,
      pattern_config |-> [ amplitude |-> Fx(50), frequency |-> 2,
                           phase_offset |-> 0, dc_offset |-> Fx(50) ],
      min_value |-> row.min_value,
      max_value |-> row.max_value,
      value |-> Fx(0),
      timestamp |-> at ]

\* The forEach of 93-117: a later row with the same key overwrites an earlier one.
createDbSensorData(map, rows, at) ==
    LET keys == {SensorKey(rows, i) : i \in 1..Len(rows)}
        last(k) == CHOOSE i \in 1..Len(rows) :
                      /\ SensorKey(rows, i) = k
                      /\ \A j \in (i + 1)..Len(rows) : SensorKey(rows, j) # k
    IN  [k \in (DOMAIN map) \cup keys |->
            IF k \in keys THEN DbSensor(rows[last(k)], at) ELSE map[k]]

EmptyMap == [k \in {} |-> {}]
Refreshed(map) == [k \in DOMAIN map |-> [by |-> "refresher", value |-> map[k].value]]

(***************************************************************************)
(* What a step answers.  answers counts the calls of res; error is the ADS *)
(* error code, 0 for none; threw says the handler ended in an exception    *)
(* and pending that it is suspended before its call of res; sink says how  *)
(* the datastore insert the handler awaited has ended, info is what a      *)
(* ReadDeviceInfo or ReadState answer carries and written the write        *)
(* payload a ReadWrite request came with.                                  *)
(***************************************************************************)
SYMBOL_NOT_FOUND == 1808
INVALID_NOTIFICATION_HANDLE == 1812

NoKey == <<0, 0>>
NoResp ==
    [ kind |-> "none", key |-> NoKey, handle |-> 0, answers |-> 0, error |-> 0,
      data |-> NULL, threw |-> FALSE, pending |-> FALSE, sink |-> "none",
      info |-> NULL, written |-> NULL ]
Answer(kind, key, handle, error, data) ==
    [ kind |-> kind, key |-> key, handle |-> handle, answers |-> 1, error |-> error,
      data |-> data, threw |-> FALSE, pending |-> FALSE, sink |-> "none",
      info |-> NULL, written |-> NULL ]
NoPush == <<>>
NoProbe == [fn |-> "none", args |-> <<>>, out |-> NULL]

(***************************************************************************)
(* ConfigLoader: the server's (src/server/configLoader.js) and the         *)
(* client's (src/utils/configLoader.ts).  A topology holds the module      *)
(* count, the auto_generate flag and the module templates; a template its  *)
(* name and its sensors.  A name is a sequence of tokens.                  *)
(***************************************************************************)
Lit(text) == <<"lit", text, 0>>
Placeholder == <<"ph", "{index}", 0>>
Num(n) == <<"num", "", n>>

SensorConfig(name, pattern, lo, hi, patternConfig) ==
    [ name |-> name, data_pattern |-> pattern, min_value |-> lo, max_value |-> hi,
      pattern_config |-> patternConfig ]

PatternConfig(amplitude, frequency, phase, dc) ==
    [ amplitude |-> amplitude, frequency |-> frequency, phase_offset |-> phase,
      dc_offset |-> dc ]

\* The sensors of getDefaultConfig: the server's carry a pattern_config
\* (configLoader.js 47-93), the client's carry none (configLoader.ts 93-121).
DefaultSensors(loader) ==
    << SensorConfig(<<Lit("Temperature Sensor")>>, "sine", Fx(20), Fx(80),
           IF loader = "server" THEN Some(PatternConfig(Fx(30), 2, 0, Fx(50))) ELSE NULL),
       SensorConfig(<<Lit("Pressure Sensor")>>, "noise", Fx(0), Fx(10),
           IF loader = "server" THEN Some(PatternConfig(Fx(5), 4, 2, Fx(5))) ELSE NULL),
       SensorConfig(<<Lit("Vibration Monitor")>>, "square", Fx(0), Fx(50),
           IF loader = "server" THEN Some(PatternConfig(Fx(25), 6, 4, Fx(25))) ELSE NULL) >>

\* getDefaultConfig (configLoader.js 27-99, configLoader.ts 74-127).
getDefaultConfig(loader) ==
    [ count |-> IF loader = "server" THEN 5 ELSE 4,
      auto_generate |-> TRUE,
      templates |-> << [ name |-> <<Lit("Production Line "), Placeholder>>,
                         sensors |-> DefaultSensors(loader) ] >> ]

\* Topologies a topology file may hold; the loaders do not look into what they parse.
FileSensor(n) ==
    SensorConfig(<<Lit("Sensor "), Placeholder>>,
                 IF n = 1 THEN "sine" ELSE IF n = 2 THEN "noise" ELSE "square",
                 Fx(0), Fx(100), NULL)
FileTopologies ==
    { [ count |-> 2, auto_generate |-> TRUE,
        templates |-> << [ name |-> <<Lit("Line "), Placeholder>>,
                           sensors |-> <<FileSensor(1), FileSensor(2), FileSensor(3)>> ] >> ],
      [ count |-> 1, auto_generate |-> FALSE,
        templates |-> << [ name |-> <<Lit("Line "), Placeholder>>,
                           sensors |-> <<FileSensor(1), FileSensor(2), FileSensor(3)>> ] >> ],
      [ count |-> 2, auto_generate |-> TRUE,
        templates |-> << [ name |-> <<Lit("Cell "), Placeholder, Lit("/"), Placeholder>>,
                           sensors |-> <<FileSensor(1), FileSensor(2), FileSensor(3)>> ],
                         [ name |-> <<Lit("Pump")>>,
                           sensors |-> <<FileSensor(1), FileSensor(3)>> ] >> ] }

\* What reading the topology file comes to: the file cannot be read (readFileSync
\* throws, fetch rejects or answers not ok), it does not parse, or it holds a topology.
Files ==
    { [kind |-> "unreadable", topology |-> NULL], [kind |-> "malformed", topology |-> NULL] }
        \cup { [kind |-> "ok", topology |-> Some(t)] : t \in FileTopologies }

\* loadConfig with the catch of 20 / 66 rethrowing.
loadConfigRethrowing(cache, loader, file) ==
    IF cache # NULL
    THEN [raised |-> FALSE, config |-> cache, cache |-> cache, read |-> FALSE]
    ELSE IF file.kind = "ok"
    THEN [raised |-> FALSE, config |-> file.topology, cache |-> file.topology,
          read |-> TRUE]
    ELSE [raised |-> TRUE, config |-> NULL, cache |-> NULL, read |-> TRUE]

\* loadConfig keeping the default it falls back to.
loadConfigCachingDefault(cache, loader, file) ==
    IF cache # NULL
    THEN [raised |-> FALSE, config |-> cache, cache |-> cache, read |-> FALSE]
    ELSE IF file.kind = "ok"
    THEN [raised |-> FALSE, config |-> file.topology, cache |-> file.topology,
          read |-> TRUE]
    ELSE [raised |-> FALSE, config |-> Some(getDefaultConfig(loader)),
          cache |-> Some(getDefaultConfig(loader)), read |-> TRUE]

\* loadConfig (configLoader.js 7-25, configLoader.ts 49-72) with the cache as it
\* is: what the caller gets, the cache after the call and whether the file was read.
loadConfig(cache, loader, file) ==
    IF cache # NULL
    THEN [raised |-> FALSE, config |-> cache, cache |-> cache, read |-> FALSE]
    ELSE IF file.kind = "ok"
    THEN [raised |-> FALSE, config |-> file.topology, cache |-> file.topology,
          read |-> TRUE]
    ELSE [raised |-> FALSE, config |-> Some(getDefaultConfig(loader)), cache |-> NULL,
          read |-> TRUE]

(***************************************************************************)
(* startServer (340-370).  Between two awaits the code runs as one step:   *)
(* the awaits are the select of initializeSensorData (84), server.listen   *)
(* (356) and the 2 s sleep (367).                                          *)
(***************************************************************************)
ports == <<48899, 48900, 48901>>
Epoch == MaxCycleTime + 1     \* Date.now() at start: later than any cycle time

\* The steps of an attempt after the registry is built, with the topology loaded
\* before the registry is built.
RegisterAndListenConfigFirst(file) ==
    /\ config' = [config EXCEPT !["server"] = loadConfig(@, "server", file).cache]
    /\ refreshers' = refreshers + 1
    /\ pc' = "listen"
    /\ startup' = IF Len(startup) > 1 THEN startup
                  ELSE <<"config">> \o startup \o <<"registry", "refresher", "bind">>

\* 351-356: initializeSensorData has returned; the topology is loaded, the
\* refresher timer is registered, then server.listen is called and awaited.
RegisterAndListen(file) ==
    /\ config' = [config EXCEPT !["server"] = loadConfig(@, "server", file).cache]
    /\ refreshers' = refreshers + 1
    /\ pc' = "listen"
    /\ startup' = IF Len(startup) > 1 THEN startup
                  ELSE startup \o <<"registry", "config", "refresher", "bind">>

\* 126-134: the mock sensors are created and every value generated.
MockPath(time) ==
    LET map == createMockSensorData(sensorDataMap, now)
    IN  /\ sensorDataMap' = updateSensorData(map, time, now, rng)
        /\ rng' = (rng + NoiseCount(map)) % Len(RandStream)
        /\ origin' = Refreshed(sensorDataMap')
        /\ lastRefresh' = [time |-> time, pos |-> rng]

\* 88-121: the rows are put in and every value generated.
DbPath(rows, time) ==
    LET map == createDbSensorData(sensorDataMap, rows, now)
    IN  /\ sensorDataMap' = updateSensorData(map, time, now, rng)
        /\ rng' = (rng + NoiseCount(map)) % Len(RandStream)
        /\ origin' = Refreshed(sensorDataMap')
        /\ lastRefresh' = [time |-> time, pos |-> rng]

BeginAttempt(time, file) ==
    /\ pc = "loop"
    /\ retries > 0 /\ portIndex < Len(ports)
    /\ port' = ports[portIndex + 1]
    /\ IF supabase
       THEN /\ pc' = "select"
            /\ UNCHANGED <<registryVars, refreshers, config, startup>>
       ELSE /\ MockPath(time)
            /\ RegisterAndListen(file)
    /\ resp' = NoResp /\ pushed' = NoPush
    /\ UNCHANGED <<supabase, probe, clientVars, subscriberVars, now, retries, portIndex,
                   writers>>

\* The select returned rows.
SelectRows(rows, time, file) ==
    /\ pc = "select"
    /\ DbPath(rows, time)
    /\ RegisterAndListen(file)
    /\ resp' = NoResp /\ pushed' = NoPush
    /\ UNCHANGED <<supabase, probe, clientVars, subscriberVars, now, retries, portIndex,
                   port, writers>>

\* The select returned an error or no row, or was rejected (126-131).
SelectFails(time, file) ==
    /\ pc = "select"
    /\ MockPath(time)
    /\ RegisterAndListen(file)
    /\ resp' = NoResp /\ pushed' = NoPush
    /\ UNCHANGED <<supabase, probe, clientVars, subscriberVars, now, retries, portIndex,
                   port, writers>>

ListenOk ==
    /\ pc = "listen"
    /\ pc' = "listening"
    /\ resp' = NoResp /\ pushed' = NoPush
    /\ UNCHANGED <<supabase, otherVars, registryVars, subscriberVars, now, retries, portIndex,
                   port, refreshers, startup, writers>>

\* The catch of 359 counting the failure and staying on the same port.
ListenFailsSamePort ==
    /\ pc = "listen"
    /\ retries' = retries - 1
    /\ pc' = IF retries' = 0 THEN "exited" ELSE "sleep"
    /\ resp' = NoResp /\ pushed' = NoPush
    /\ UNCHANGED <<supabase, otherVars, registryVars, subscriberVars, now, portIndex, port,
                   refreshers, startup, writers>>

\* The catch of 359 sleeping before it looks at what is left.
ListenFailsSleepFirst ==
    /\ pc = "listen"
    /\ retries' = retries - 1
    /\ portIndex' = portIndex + 1
    /\ pc' = "sleep"
    /\ resp' = NoResp /\ pushed' = NoPush
    /\ UNCHANGED <<supabase, otherVars, registryVars, subscriberVars, now, port, refreshers,
                   startup, writers>>

\* 359-367: the attempt failed; the last failure is rethrown and the process exits.
ListenFails ==
    /\ pc = "listen"
    /\ retries' = retries - 1
    /\ portIndex' = portIndex + 1
    /\ pc' = IF retries' = 0 \/ portIndex' = Len(ports) THEN "exited" ELSE "sleep"
    /\ resp' = NoResp /\ pushed' = NoPush
    /\ UNCHANGED <<supabase, otherVars, registryVars, subscriberVars, now, port, refreshers,
                   startup, writers>>

SleepDone ==
    /\ pc = "sleep"
    /\ pc' = "loop"
    /\ resp' = NoResp /\ pushed' = NoPush
    /\ UNCHANGED <<supabase, otherVars, registryVars, subscriberVars, now, retries, portIndex,
                   port, refreshers, startup, writers>>

Running == pc # "exited"
Listening == pc = "listening"

(***************************************************************************)
(* The value refresher: setInterval(updateSensorData, updateInterval).     *)
(***************************************************************************)
UpdateSensorDataTick(time) ==
    /\ Running /\ refreshers > 0
    /\ sensorDataMap' = updateSensorData(sensorDataMap, time, now, rng)
    /\ lastRefresh' = [time |-> time, pos |-> rng]
    /\ rng' = (rng + NoiseCount(sensorDataMap)) % Len(RandStream)
    /\ origin' = Refreshed(sensorDataMap')
    /\ resp' = NoResp /\ pushed' = NoPush
    /\ UNCHANGED <<supabase, otherVars, subscriberVars, now, bootVars, writers>>

\* Read with index group and index offset exchanged in the key.
ReadReqSwapped(key) ==
    LET k == <<key[2], key[1]>>
    IN  /\ Listening
        /\ resp' = IF k \in DOMAIN sensorDataMap
                   THEN Answer("Read", key, 0, 0, Some(writeFloatLE(sensorDataMap[k].value)))
                   ELSE Answer("Read", key, 0, SYMBOL_NOT_FOUND, NULL)
        /\ pushed' = NoPush
        /\ UNCHANGED <<supabase, otherVars, registryVars, subscriberVars, now, bootVars, writers>>

(***************************************************************************)
(* Read (181-195).                                                         *)
(***************************************************************************)
ReadReq(key) ==
    /\ Listening
    /\ resp' = IF key \in DOMAIN sensorDataMap
               THEN Answer("Read", key, 0, 0, Some(writeFloatLE(sensorDataMap[key].value)))
               ELSE Answer("Read", key, 0, SYMBOL_NOT_FOUND, NULL)
    /\ pushed' = NoPush
    /\ UNCHANGED <<supabase, otherVars, registryVars, subscriberVars, now, bootVars, writers>>

\* Write that clamps the written value to the sensor's range before it stores it.
WriteReqClamped(key, length, value) ==
    /\ Listening
    /\ IF length < 4
       THEN /\ resp' = [NoResp EXCEPT !.kind = "Write", !.key = key, !.threw = TRUE]
            /\ UNCHANGED <<sensorDataMap, origin, writers>>
       ELSE IF key \in DOMAIN sensorDataMap
       THEN /\ sensorDataMap' =
                  [sensorDataMap EXCEPT
                      ![key].value = ApplyConstraints(sensorDataMap[key], value),
                      ![key].timestamp = now]
            /\ origin' = [origin EXCEPT ![key] = [by |-> "write", value |-> value]]
            /\ IF supabase
               THEN /\ writers' = Append(writers, key)
                    /\ resp' = [NoResp EXCEPT !.kind = "Write", !.key = key,
                                              !.pending = TRUE]
               ELSE /\ writers' = writers
                    /\ resp' = Answer("Write", key, 0, 0, NULL)
       ELSE /\ resp' = Answer("Write", key, 0, SYMBOL_NOT_FOUND, NULL)
            /\ UNCHANGED <<sensorDataMap, origin, writers>>
    /\ pushed' = NoPush
    /\ UNCHANGED <<supabase, otherVars, rng, lastRefresh, subscriberVars, now, bootVars>>

\* Write with the timestamp assigned after the await of the insert: the handler
\* is suspended with the new value stored and the old timestamp still in place.
WriteReqStampLater(key, length, value) ==
    /\ Listening
    /\ IF length < 4
       THEN /\ resp' = [NoResp EXCEPT !.kind = "Write", !.key = key, !.threw = TRUE]
            /\ UNCHANGED <<sensorDataMap, origin, writers>>
       ELSE IF key \in DOMAIN sensorDataMap
       THEN /\ sensorDataMap' =
                  IF supabase
                  THEN [sensorDataMap EXCEPT ![key].value = value]
                  ELSE [sensorDataMap EXCEPT ![key].value = value,
                                             ![key].timestamp = now]
            /\ origin' = [origin EXCEPT ![key] = [by |-> "write", value |-> value]]
            /\ IF supabase
               THEN /\ writers' = Append(writers, key)
                    /\ resp' = [NoResp EXCEPT !.kind = "Write", !.key = key,
                                              !.pending = TRUE]
               ELSE /\ writers' = writers
                    /\ resp' = Answer("Write", key, 0, 0, NULL)
       ELSE /\ resp' = Answer("Write", key, 0, SYMBOL_NOT_FOUND, NULL)
            /\ UNCHANGED <<sensorDataMap, origin, writers>>
    /\ pushed' = NoPush
    /\ UNCHANGED <<supabase, otherVars, rng, lastRefresh, subscriberVars, now, bootVars>>

\* Write storing the value in every sensor of the addressed module.
WriteReqWholeModule(key, length, value) ==
    /\ Listening
    /\ IF length < 4
       THEN /\ resp' = [NoResp EXCEPT !.kind = "Write", !.key = key, !.threw = TRUE]
            /\ UNCHANGED <<sensorDataMap, origin, writers>>
       ELSE IF key \in DOMAIN sensorDataMap
       THEN /\ sensorDataMap' =
                  [k \in DOMAIN sensorDataMap |->
                      IF k[1] = key[1]
                      THEN [sensorDataMap[k] EXCEPT !.value = value, !.timestamp = now]
                      ELSE sensorDataMap[k]]
            /\ origin' = [origin EXCEPT ![key] = [by |-> "write", value |-> value]]
            /\ IF supabase
               THEN /\ writers' = Append(writers, key)
                    /\ resp' = [NoResp EXCEPT !.kind = "Write", !.key = key,
                                              !.pending = TRUE]
               ELSE /\ writers' = writers
                    /\ resp' = Answer("Write", key, 0, 0, NULL)
       ELSE /\ resp' = Answer("Write", key, 0, SYMBOL_NOT_FOUND, NULL)
            /\ UNCHANGED <<sensorDataMap, origin, writers>>
    /\ pushed' = NoPush
    /\ UNCHANGED <<supabase, otherVars, rng, lastRefresh, subscriberVars, now, bootVars>>

(***************************************************************************)
(* Write (198-230).  The payload is read at 199, before any answer: with   *)
(* fewer than four bytes readFloatLE throws.  With the datastore client    *)
(* present the handler awaits the insert (211) before it answers (225).    *)
(***************************************************************************)
WriteReq(key, length, value) ==
    /\ Listening
    /\ IF length < 4
       THEN /\ resp' = [NoResp EXCEPT !.kind = "Write", !.key = key, !.threw = TRUE]
            /\ UNCHANGED <<sensorDataMap, origin, writers>>
       ELSE IF key \in DOMAIN sensorDataMap
       THEN /\ sensorDataMap' = [sensorDataMap EXCEPT ![key].value = value,
                                                      ![key].timestamp = now]
            /\ origin' = [origin EXCEPT ![key] = [by |-> "write", value |-> value]]
            /\ IF supabase
               THEN /\ writers' = Append(writers, key)
                    /\ resp' = [NoResp EXCEPT !.kind = "Write", !.key = key,
                                              !.pending = TRUE]
               ELSE /\ writers' = writers
                    /\ resp' = Answer("Write", key, 0, 0, NULL)
       ELSE /\ resp' = Answer("Write", key, 0, SYMBOL_NOT_FOUND, NULL)
            /\ UNCHANGED <<sensorDataMap, origin, writers>>
    /\ pushed' = NoPush
    /\ UNCHANGED <<supabase, otherVars, rng, lastRefresh, subscriberVars, now, bootVars>>

\* How the insert of 211 may end: no error, an error returned (217), a rejection (220).
SinkResults == {"ok", "error", "throws"}

\* The handler answering with an error when the insert did not end well.
InsertDoneStrict(i, result) ==
    /\ Running
    /\ i \in 1..Len(writers)
    /\ writers' = SubSeq(writers, 1, i - 1) \o SubSeq(writers, i + 1, Len(writers))
    /\ resp' = [Answer("Write", writers[i], 0, IF result = "ok" THEN 0 ELSE 1, NULL)
                   EXCEPT !.sink = result]
    /\ pushed' = NoPush
    /\ UNCHANGED <<supabase, otherVars, registryVars, subscriberVars, now, bootVars>>

\* The insert ended with result; the handler goes on to its answer (225).
InsertDone(i, result) ==
    /\ Running
    /\ i \in 1..Len(writers)
    /\ writers' = SubSeq(writers, 1, i - 1) \o SubSeq(writers, i + 1, Len(writers))
    /\ resp' = [Answer("Write", writers[i], 0, 0, NULL) EXCEPT !.sink = result]
    /\ pushed' = NoPush
    /\ UNCHANGED <<supabase, otherVars, registryVars, subscriberVars, now, bootVars>>

(***************************************************************************)
(* ReadWrite, ReadDeviceInfo, ReadState, WriteControl (233-273).           *)
(***************************************************************************)
\* ReadWrite storing its write payload in the sensor after reading it.
ReadWriteReqStoring(key, value) ==
    /\ Listening
    /\ IF key \in DOMAIN sensorDataMap
       THEN /\ resp' = [Answer("ReadWrite", key, 0, 0,
                               Some(writeFloatLE(sensorDataMap[key].value)))
                           EXCEPT !.written = Some(value)]
            /\ sensorDataMap' = [sensorDataMap EXCEPT ![key].value = value]
       ELSE /\ resp' = [Answer("ReadWrite", key, 0, SYMBOL_NOT_FOUND, NULL)
                           EXCEPT !.written = Some(value)]
            /\ UNCHANGED sensorDataMap
    /\ pushed' = NoPush
    /\ UNCHANGED <<supabase, otherVars, rng, origin, lastRefresh, subscriberVars, now,
                   bootVars, writers>>

\* onReadWriteReq (233-247) never looks at req.data, the write payload (value).
ReadWriteReq(key, value) ==
    /\ Listening
    /\ resp' = [(IF key \in DOMAIN sensorDataMap
                 THEN Answer("ReadWrite", key, 0, 0,
                             Some(writeFloatLE(sensorDataMap[key].value)))
                 ELSE Answer("ReadWrite", key, 0, SYMBOL_NOT_FOUND, NULL))
                   EXCEPT !.written = Some(value)]
    /\ pushed' = NoPush
    /\ UNCHANGED <<supabase, otherVars, registryVars, subscriberVars, now, bootVars, writers>>

\* 252-257 and 263-266: what the two answers carry.
DeviceInfo ==
    [ deviceName |-> "Mock PLC Server", majorVersion |-> 1, minorVersion |-> 0,
      versionBuild |-> 1 ]
DeviceState == [adsState |-> "Run", deviceState |-> 0]

ReadDeviceInfo ==
    /\ Listening
    /\ resp' = [Answer("ReadDeviceInfo", NoKey, 0, 0, NULL) EXCEPT !.info = Some(DeviceInfo)]
    /\ pushed' = NoPush
    /\ UNCHANGED <<supabase, otherVars, registryVars, subscriberVars, now, bootVars, writers>>

\* ReadState reporting Stop while no subscriber is registered.
ReadStateBySubscribers ==
    /\ Listening
    /\ resp' = [Answer("ReadState", NoKey, 0, 0, NULL) EXCEPT
                   !.info = Some([DeviceState EXCEPT
                              !.adsState = IF subscribers = <<>> THEN "Stop" ELSE "Run"])]
    /\ pushed' = NoPush
    /\ UNCHANGED <<supabase, otherVars, registryVars, subscriberVars, now, bootVars, writers>>

ReadState ==
    /\ Listening
    /\ resp' = [Answer("ReadState", NoKey, 0, 0, NULL) EXCEPT !.info = Some(DeviceState)]
    /\ pushed' = NoPush
    /\ UNCHANGED <<supabase, otherVars, registryVars, subscriberVars, now, bootVars, writers>>

WriteControl ==
    /\ Listening
    /\ resp' = Answer("WriteControl", NoKey, 0, 0, NULL)
    /\ pushed' = NoPush
    /\ UNCHANGED <<supabase, otherVars, registryVars, subscriberVars, now, bootVars, writers>>

(***************************************************************************)
(* The subscribers array.  A for-of loop of the scheduler keeps the array  *)
(* object it started on: push (282) changes that object in place, filter   *)
(* (305) makes a new one.  A suspended callback is live while its array is *)
(* still the current one, and holds its own array (arr) once it is not.    *)
(***************************************************************************)
ArrayOf(tick) == IF tick.live THEN subscribers ELSE tick.arr

Referenced(subs, tks) ==
    {subs[i] : i \in 1..Len(subs)}
        \cup UNION {{tks[j].arr[i] : i \in 1..Len(tks[j].arr)} : j \in 1..Len(tks)}

\* The objects no array holds any more are dropped.
Collect(f, subs, tks) == [r \in (DOMAIN f) \cap Referenced(subs, tks) |-> f[r]]

RemoveAt(seq, i) == SubSeq(seq, 1, i - 1) \o SubSeq(seq, i + 1, Len(seq))

(***************************************************************************)
(* AddNotification (276-297) and DeleteNotification (300-312).             *)
(***************************************************************************)
CycleTimes == 0..MaxCycleTime

\* The handle taken from the length of the array instead of the counter.
NewHandleFromLength == Len(subscribers) + 1

\* 281: notificationHandle = nextHandle++
NewHandle == nextHandle

Subscriber(handle, key, cycleTime, target) ==
    [ notificationHandle |-> handle,
      target |-> target,
      indexGroup |-> key[1],
      indexOffset |-> key[2],
      cycleTime |-> cycleTime,
      lastSendTime |-> 0 ]

\* AddNotification with the handle counted before the sensor is looked up.
AddNotificationEager(key, cycleTime, target) ==
    /\ Listening
    /\ nextHandle' = nextHandle + 1
    /\ IF key \in DOMAIN sensorDataMap
       THEN /\ nextRef' = nextRef + 1
            /\ subscribers' = Append(subscribers, nextRef)
            /\ heap' = [r \in (DOMAIN heap) \cup {nextRef} |->
                          IF r = nextRef
                          THEN Subscriber(NewHandle, key, cycleTime, target)
                          ELSE heap[r]]
            /\ sent' = [r \in (DOMAIN sent) \cup {nextRef} |->
                          IF r = nextRef THEN <<>> ELSE sent[r]]
            /\ issued' = Append(issued, NewHandle)
            /\ created' = Append(created, now)
            /\ resp' = Answer("AddNotification", key, NewHandle, 0, NULL)
       ELSE /\ resp' = Answer("AddNotification", key, 0, SYMBOL_NOT_FOUND, NULL)
            /\ UNCHANGED <<nextRef, subscribers, heap, sent, issued,
                         created>>
    /\ pushed' = NoPush
    /\ UNCHANGED <<supabase, otherVars, registryVars, ticks, deleted, failed, now, bootVars,
                   writers>>

\* AddNotification without the lookup of the sensor (280).
AddNotificationUnchecked(key, cycleTime, target) ==
    /\ Listening
    /\ nextHandle' = nextHandle + 1
    /\ nextRef' = nextRef + 1
    /\ subscribers' = Append(subscribers, nextRef)
    /\ heap' = [r \in (DOMAIN heap) \cup {nextRef} |->
                  IF r = nextRef
                  THEN Subscriber(NewHandle, key, cycleTime, target)
                  ELSE heap[r]]
    /\ sent' = [r \in (DOMAIN sent) \cup {nextRef} |->
                  IF r = nextRef THEN <<>> ELSE sent[r]]
    /\ issued' = Append(issued, NewHandle)
    /\ created' = Append(created, now)
    /\ resp' = Answer("AddNotification", key, NewHandle, 0, NULL)
    /\ pushed' = NoPush
    /\ UNCHANGED <<supabase, otherVars, registryVars, ticks, deleted, failed, now, bootVars,
                   writers>>

AddNotification(key, cycleTime, target) ==
    /\ Listening
    /\ IF key \in DOMAIN sensorDataMap
       THEN /\ nextHandle' = nextHandle + 1
            /\ nextRef' = nextRef + 1
            /\ subscribers' = Append(subscribers, nextRef)
            /\ heap' = [r \in (DOMAIN heap) \cup {nextRef} |->
                          IF r = nextRef
                          THEN Subscriber(NewHandle, key, cycleTime, target)
                          ELSE heap[r]]
            /\ sent' = [r \in (DOMAIN sent) \cup {nextRef} |->
                          IF r = nextRef THEN <<>> ELSE sent[r]]
            /\ issued' = Append(issued, NewHandle)
            /\ created' = Append(created, now)
            /\ resp' = Answer("AddNotification", key, NewHandle, 0, NULL)
       ELSE /\ resp' = Answer("AddNotification", key, 0, SYMBOL_NOT_FOUND, NULL)
            /\ UNCHANGED <<nextHandle, nextRef, subscribers, heap, sent, issued,
                         created>>
    /\ pushed' = NoPush
    /\ UNCHANGED <<supabase, otherVars, registryVars, ticks, deleted, failed, now, bootVars,
                   writers>>

HasHandle(handle) ==
    \E i \in 1..Len(subscribers) : heap[subscribers[i]].notificationHandle = handle

\* The filter of 305 keeping every subscriber.
RemainingAll(handle) == subscribers

\* 305: subscribers.filter((sub) => sub.notificationHandle !== req.notificationHandle)
Remaining(handle) ==
    SelectSeq(subscribers, LAMBDA r : heap[r].notificationHandle # handle)

DeleteNotification(handle) ==
    /\ Listening
    /\ IF HasHandle(handle)
       THEN LET kept == Remaining(handle)
                tks == [j \in 1..Len(ticks) |->
                           [ live |-> FALSE, arr |-> ArrayOf(ticks[j]),
                             idx |-> ticks[j].idx ]]
            IN  /\ subscribers' = kept
                /\ ticks' = tks
                /\ heap' = Collect(heap, kept, tks)
                /\ sent' = Collect(sent, kept, tks)
                /\ failed' = failed \cap Referenced(kept, tks)
                /\ deleted' = deleted \cup {handle}
                /\ resp' = Answer("DeleteNotification", NoKey, handle, 0, NULL)
       ELSE /\ resp' = Answer("DeleteNotification", NoKey, handle,
                              INVALID_NOTIFICATION_HANDLE, NULL)
            /\ UNCHANGED <<subscribers, ticks, heap, sent, deleted, failed>>
    /\ pushed' = NoPush
    /\ UNCHANGED <<supabase, otherVars, registryVars, nextHandle, nextRef, issued, created,
                   now, bootVars,
                   writers>>

(***************************************************************************)
(* The notification scheduler (315-337): setInterval(..., 100).  The loop  *)
(* runs to the first subscriber that is due and awaits its send (323);     *)
(* when the send has settled, lastSendTime is set (333) and the loop goes  *)
(* on.  A send that fails is caught and logged (332), and changes nothing. *)
(***************************************************************************)
\* The test of 317 with > in the place of >=.
DueStrict(sub, t) ==
    /\ t - sub.lastSendTime > sub.cycleTime
    /\ <<sub.indexGroup, sub.indexOffset>> \in DOMAIN sensorDataMap

Due(sub, t) ==
    /\ t - sub.lastSendTime >= sub.cycleTime
    /\ <<sub.indexGroup, sub.indexOffset>> \in DOMAIN sensorDataMap

\* The first position from idx on whose subscriber is sent to; Len(arr) + 1 if none.
\* The loop taking the subscriber added last among those due.
NextDueLast(arr, idx, hp, t) ==
    LET due == {i \in idx..Len(arr) : Due(hp[arr[i]], t)}
    IN  IF due = {} THEN Len(arr) + 1
        ELSE CHOOSE i \in due : \A j \in due : i >= j

NextDue(arr, idx, hp, t) ==
    LET due == {i \in idx..Len(arr) : Due(hp[arr[i]], t)}
    IN  IF due = {} THEN Len(arr) + 1
        ELSE CHOOSE i \in due : \A j \in due : i <= j

Notification(sub) ==
    [ notificationHandle |-> sub.notificationHandle,
      target |-> sub.target,
      data |-> writeFloatLE(sensorDataMap[<<sub.indexGroup, sub.indexOffset>>].value) ]

LastTwo(times, t) == IF times = <<>> THEN <<t>> ELSE <<times[Len(times)], t>>

SchedulerTick ==
    /\ Running
    /\ now' = now + 1
    /\ LET i == NextDue(subscribers, 1, heap, now')
       IN  IF i <= Len(subscribers)
           THEN /\ ticks' = Append(ticks, [live |-> TRUE, arr |-> <<>>, idx |-> i])
                /\ pushed' = <<Notification(heap[subscribers[i]])>>
                /\ sent' = [sent EXCEPT ![subscribers[i]] = LastTwo(@, now')]
           ELSE /\ pushed' = NoPush
                /\ UNCHANGED <<ticks, sent>>
    /\ resp' = NoResp
    /\ UNCHANGED <<supabase, otherVars, registryVars, subscribers, heap, nextHandle, nextRef,
                   issued, created, deleted, failed, bootVars, writers>>

\* The handler of a rejected send taking the subscriber off the array.
AfterSendDropping(subs, r, ok) ==
    IF ok THEN subs ELSE SelectSeq(subs, LAMBDA q : q # r)

\* 332: a rejected send is logged by the catch; the array is left as it is.
AfterSend(subs, r, ok) == subs

\* SendSettled lengthening the cycle time of a subscriber whose send was rejected.
SendSettledBackoff(n, ok) ==
    /\ Running
    /\ n \in 1..Len(ticks)
    /\ LET arr == ArrayOf(ticks[n])
           subs == AfterSend(subscribers, arr[ticks[n].idx], ok)
           hp == [heap EXCEPT ![arr[ticks[n].idx]].lastSendTime = now,
                              ![arr[ticks[n].idx]].cycleTime = IF ok THEN @ ELSE @ + 1]
           i == NextDue(arr, ticks[n].idx + 1, hp, now)
           tks == IF i <= Len(arr) THEN [ticks EXCEPT ![n].idx = i]
                  ELSE RemoveAt(ticks, n)
       IN  /\ subscribers' = subs
           /\ ticks' = tks
           /\ heap' = Collect(hp, subs, tks)
           /\ failed' = (IF ok THEN failed \ {arr[ticks[n].idx]}
                         ELSE failed \cup {arr[ticks[n].idx]})
                            \cap Referenced(subs, tks)
           /\ IF i <= Len(arr)
              THEN /\ pushed' = <<Notification(hp[arr[i]])>>
                   /\ sent' = Collect([sent EXCEPT ![arr[i]] = LastTwo(@, now)],
                                      subs, tks)
              ELSE /\ pushed' = NoPush
                   /\ sent' = Collect(sent, subs, tks)
    /\ resp' = NoResp
    /\ UNCHANGED <<supabase, otherVars, registryVars, nextHandle, nextRef, issued, created,
                   deleted,
                   now, bootVars, writers>>

\* The send awaited by the suspended callback ticks[n] settled: it resolved
\* (ok), or it was rejected and the rejection caught and logged (332).
SendSettled(n, ok) ==
    /\ Running
    /\ n \in 1..Len(ticks)
    /\ LET arr == ArrayOf(ticks[n])
           subs == AfterSend(subscribers, arr[ticks[n].idx], ok)
           hp == [heap EXCEPT ![arr[ticks[n].idx]].lastSendTime = now]
           i == NextDue(arr, ticks[n].idx + 1, hp, now)
           tks == IF i <= Len(arr) THEN [ticks EXCEPT ![n].idx = i]
                  ELSE RemoveAt(ticks, n)
       IN  /\ subscribers' = subs
           /\ ticks' = tks
           /\ heap' = Collect(hp, subs, tks)
           /\ failed' = (IF ok THEN failed \ {arr[ticks[n].idx]}
                         ELSE failed \cup {arr[ticks[n].idx]})
                            \cap Referenced(subs, tks)
           /\ IF i <= Len(arr)
              THEN /\ pushed' = <<Notification(hp[arr[i]])>>
                   /\ sent' = Collect([sent EXCEPT ![arr[i]] = LastTwo(@, now)],
                                      subs, tks)
              ELSE /\ pushed' = NoPush
                   /\ sent' = Collect(sent, subs, tks)
    /\ resp' = NoResp
    /\ UNCHANGED <<supabase, otherVars, registryVars, nextHandle, nextRef, issued, created,
                   deleted,
                   now, bootVars, writers>>

(***************************************************************************)
(* The state when the module has been loaded (1-47, 173-178, 315-337): no  *)
(* sensor, no subscriber, the scheduler timer registered, startServer at   *)
(* the head of its loop.                                                   *)
(***************************************************************************)
EmptyDb == [plc_modules |-> <<>>, sensors |-> <<>>]

\* An invocation of initializeFromConfig that has not started: where it stands, the
\* config of line 8, the loop's i, the id of moduleData and the toast it showed.
NoInvocation ==
    [pc |-> "idle", config |-> NULL, i |-> 0, moduleData |-> 0, toast |-> "none"]

Loaded ==
    /\ subscribers = <<>>
    /\ heap = EmptyMap
    /\ nextHandle = 1
    /\ nextRef = 1
    /\ now = Epoch
    /\ retries = 3
    /\ portIndex = 0
    /\ port = ports[1]
    /\ ticks = <<>>
    /\ writers = <<>>
    /\ resp = NoResp
    /\ pushed = NoPush
    /\ sent = EmptyMap
    /\ issued = <<>>
    /\ created = <<>>
    /\ deleted = {}
    /\ failed = {}
    /\ config = [loader \in Loaders |-> NULL]
    /\ db = EmptyDb
    /\ initializers = [k \in 1..MaxInvocations |-> NoInvocation]

InitLoaded ==
    /\ Loaded
    /\ startup = <<"scheduler">>
    /\ probe = NoProbe
    /\ supabase \in BOOLEAN
    /\ sensorDataMap = EmptyMap
    /\ origin = EmptyMap
    /\ lastRefresh = [time |-> 0, pos |-> 0]
    /\ rng \in 0..(Len(RandStream) - 1)
    /\ pc = "loop"
    /\ refreshers = 0

(***************************************************************************)
(* The state when startServer has returned from its first attempt with the *)
(* transport listening: the mock sensors without the datastore client, the *)
(* rows of the datastore with it.                                          *)
(***************************************************************************)
InitListening ==
    /\ Loaded
    /\ startup = <<"scheduler", "registry", "config", "refresher", "bind">>
    /\ probe = NoProbe
    /\ supabase \in BOOLEAN
    /\ \E time \in SamplePhases, pos \in 0..(Len(RandStream) - 1) :
          LET map == IF supabase
                     THEN createDbSensorData(EmptyMap, OneModuleRows, Epoch)
                     ELSE createMockSensorData(EmptyMap, Epoch)
          IN  /\ sensorDataMap = updateSensorData(map, time, Epoch, pos)
              /\ rng = (pos + NoiseCount(map)) % Len(RandStream)
              /\ origin = Refreshed(sensorDataMap)
              /\ lastRefresh = [time |-> time, pos |-> pos]
    /\ pc = "listening"
    /\ refreshers = 1

(***************************************************************************)
(* The environment: which requests arrive and when the timers and the      *)
(* awaited operations complete, within the bounds.                         *)
(***************************************************************************)
Keys == (1..MaxGroup) \X (1..MaxOffset)
\* Two addresses with a sensor and the two without of the address test.
RequestKeys == {<<1, 1>>, <<1, 2>>, <<6, 1>>, <<1, 4>>}

\* What the server's topology file comes to at start-up: it cannot be read, or it
\* holds a topology; the server reads nothing but update_interval from it.
ServerFiles == {file \in Files : file.kind = "unreadable"
                                   \/ (file.kind = "ok" /\ file.topology[1].count = 1)}

Attempt == \E time \in SamplePhases, file \in ServerFiles : BeginAttempt(time, file)
Rows == \E rows \in DbRowSets, time \in SamplePhases, file \in ServerFiles :
            SelectRows(rows, time, file)
NoRows == \E time \in SamplePhases, file \in ServerFiles : SelectFails(time, file)
Refresh == \E time \in SamplePhases : UpdateSensorDataTick(time)
Tick == now < Epoch + MaxTime /\ Len(ticks) < MaxInFlight /\ SchedulerTick
Settle == \E n \in 1..MaxInFlight, ok \in BOOLEAN : SendSettled(n, ok)
Insert == \E i \in 1..MaxWrites, result \in SinkResults : InsertDone(i, result)

ReadAny == \E key \in Keys : ReadReq(key)

NextBoot ==
    \/ Attempt \/ Rows \/ NoRows \/ ListenOk \/ ListenFails \/ SleepDone
    \/ Refresh \/ Tick \/ ReadAny

SpecBoot == InitLoaded /\ [][NextBoot]_vars

\* Every awaited operation of startServer settles: the select, server.listen and
\* the sleep; and the loop goes on when it is at its head.
FairBoot ==
    /\ WF_vars(Attempt)
    /\ WF_vars(Rows \/ NoRows)
    /\ WF_vars(ListenOk \/ ListenFails)
    /\ WF_vars(SleepDone)

\* startServer alone: no timer fires and no request arrives while it runs.
NextStart == Attempt \/ Rows \/ NoRows \/ ListenOk \/ ListenFails \/ SleepDone

SpecStart == InitLoaded /\ [][NextStart]_vars /\ FairBoot

\* Clients that read and write and never subscribe.
Read == \E key \in RequestKeys : ReadReq(key)
Write ==
    /\ Len(writers) < MaxWrites
    /\ \E key \in RequestKeys, length \in WriteLengths, value \in WriteValues :
          WriteReq(key, length, value)
ReadWrite == \E key \in RequestKeys, value \in WriteValues : ReadWriteReq(key, value)

Next ==
    \/ Refresh \/ Tick
    \/ Read \/ Write \/ Insert \/ ReadWrite
    \/ ReadDeviceInfo \/ ReadState \/ WriteControl

Spec == InitListening /\ [][Next]_vars

\* Reads and Writes with a datastore that need not answer: the requests that
\* arrive are handled, the insert of 211 is free never to settle.
NextSink == Read \/ Write \/ Insert

SpecSink == InitListening /\ [][NextSink]_vars /\ WF_vars(Read) /\ WF_vars(Write)

\* Clients that subscribe and unsubscribe, and read and write one value of one
\* sensor; the refresher has run once, before the first request.
SubscriberKeys == {<<1, 1>>, <<6, 1>>}
InitNotify == InitListening /\ lastRefresh = [time |-> 0, pos |-> 0]
ReadOne == \E key \in SubscriberKeys : ReadReq(key)
WriteOne ==
    /\ Len(writers) < MaxWrites
    /\ \E key \in SubscriberKeys, length \in WriteLengths :
          WriteReq(key, length, Fx(150))
ReadWriteOne == \E key \in SubscriberKeys : ReadWriteReq(key, Fx(150))
Add ==
    /\ nextRef <= MaxSubs
    /\ \E key \in SubscriberKeys, cycleTime \in CycleTimes :
          AddNotification(key, cycleTime, "clientA")
Delete == \E handle \in 1..(MaxSubs + 1) : DeleteNotification(handle)

NextNotify ==
    \/ Tick \/ Settle
    \/ ReadOne \/ WriteOne \/ Insert \/ ReadWriteOne
    \/ ReadDeviceInfo \/ ReadState \/ WriteControl
    \/ Add \/ Delete

SpecNotify == InitNotify /\ [][NextNotify]_vars

(***************************************************************************)
(* The generators on their own: generateSensorValue of the server, and     *)
(* generateSensorValue of the plc-data-simulator function (index.ts 23-58),*)
(* which takes the bounds as numbers and an optional pattern_config, and   *)
(* clamps with Math.max(minValue, Math.min(maxValue, v)).                   *)
(***************************************************************************)
UsesRandom(sensor) == sensor.data_pattern = "noise"

Max2(a, b) == IF a >= b THEN a ELSE b
Min2(a, b) == IF a <= b THEN a ELSE b

\* index.ts 31-38: the configuration derived from the range when none is given.
SimulatorConfig(minValue, maxValue, patternConfig) ==
    IF patternConfig # NULL THEN patternConfig[1]
    ELSE [ amplitude |-> (3 * (maxValue - minValue)) \div 10,
           frequency |-> 2,
           phase_offset |-> 0,
           dc_offset |-> minValue + (maxValue - minValue) \div 2 ]

\* index.ts 40-57, before the clamp.
SimulatorRawValue(pattern, minValue, maxValue, time, patternConfig, rnd) ==
    LET cfg == SimulatorConfig(minValue, maxValue, patternConfig)
        s == Sin8(cfg.frequency * time + cfg.phase_offset)
    IN  CASE pattern = "sine" ->
                (cfg.amplitude * s) \div 10 + cfg.dc_offset
          [] pattern = "noise" ->
                (cfg.amplitude * s) \div 10 + cfg.dc_offset
                    + ((rnd - 10) * cfg.amplitude) \div 100
          [] pattern = "square" ->
                cfg.dc_offset + (IF s > 0 THEN (4 * cfg.amplitude) \div 5
                                    ELSE -(cfg.amplitude \div 5))
          [] OTHER -> minValue + (rnd * (maxValue - minValue)) \div 20

\* index.ts 23-58.
SimulatorSensorValue(pattern, minValue, maxValue, time, patternConfig, rnd) ==
    LET raw == SimulatorRawValue(pattern, minValue, maxValue, time, patternConfig, rnd)
    IN  IF pattern \in {"sine", "noise", "square"}
        THEN Max2(minValue, Min2(maxValue, raw))
        ELSE raw

\* The sensors and configurations the generators are applied to.
GenPatterns == {"sine", "noise", "square", "triangle"}
GenConfigs ==
    [ amplitude : {Fx(30), Fx(50)}, frequency : {2, 3}, phase_offset : {0, 2},
      dc_offset : {Fx(50), Fx(80)} ]
GenMins == {Fx(0), Fx(60)}
GenMaxs == {Fx(80), Fx(100)}
GenSensor(pattern, cfg, lo, hi) ==
    [ id |-> <<"gen", 0, 0>>, module_id |-> <<"gen-module", 0>>,
      data_pattern |-> pattern, pattern_config |-> cfg,
      min_value |-> lo, max_value |-> hi, value |-> Fx(0), timestamp |-> Epoch ]
GenSensors ==
    { GenSensor(pattern, cfg, lo, hi) :
        pattern \in GenPatterns, cfg \in GenConfigs,
        lo \in {NULL} \cup {Some(v) : v \in GenMins},
        hi \in {NULL} \cup {Some(v) : v \in GenMaxs} }

serverVars ==
    <<supabase, sensorDataMap, subscribers, heap, nextHandle, nextRef, now, pc,
      retries, portIndex, port, refreshers, ticks, writers, resp, pushed, sent,
      issued, created, deleted, origin, lastRefresh, failed, startup>>

\* The calls made: the function, its arguments and, once it returned, its result
\* (out) and the value it had before the bounds were applied (raw).
GenCalls ==
    { [ fn |-> "generateSensorValue", args |-> [sensor |-> sensor, time |-> time],
        raw |-> NULL, out |-> NULL ] : sensor \in GenSensors, time \in SamplePhases }
SimulatorCalls ==
    { [ fn |-> "simulator",
        args |-> [ pattern |-> pattern, minValue |-> minValue, maxValue |-> maxValue,
                   time |-> time, patternConfig |-> patternConfig ],
        raw |-> NULL, out |-> NULL ] :
        pattern \in GenPatterns, minValue \in GenMins, maxValue \in GenMaxs,
        time \in SamplePhases, patternConfig \in {NULL} \cup {Some(c) : c \in GenConfigs} }

\* One call of the server's generateSensorValue; Math.random() is called by the
\* noise pattern only (61).
Evaluate ==
    /\ probe.fn = "generateSensorValue"
    /\ probe' = [probe EXCEPT
                    !.raw = Some(RawSensorValue(probe.args.sensor, probe.args.time,
                                                RandAt(rng))),
                    !.out = Some(generateSensorValue(probe.args.sensor, probe.args.time,
                                                     RandAt(rng)))]
    /\ rng' = IF UsesRandom(probe.args.sensor) THEN (rng + 1) % Len(RandStream) ELSE rng
    /\ UNCHANGED <<serverVars, config, clientVars>>

\* One call of the simulator's generateSensorValue; Math.random() is called by the
\* noise pattern (48) and for an unrecognised pattern (56).
SimulatorEvaluate ==
    /\ probe.fn = "simulator"
    /\ probe' = [probe EXCEPT
                    !.raw = Some(SimulatorRawValue(probe.args.pattern, probe.args.minValue,
                                    probe.args.maxValue, probe.args.time,
                                    probe.args.patternConfig, RandAt(rng))),
                    !.out = Some(SimulatorSensorValue(probe.args.pattern,
                                    probe.args.minValue, probe.args.maxValue,
                                    probe.args.time, probe.args.patternConfig,
                                    RandAt(rng)))]
    /\ rng' = IF probe.args.pattern \in {"sine", "square"} THEN rng
              ELSE (rng + 1) % Len(RandStream)
    /\ UNCHANGED <<serverVars, config, clientVars>>

\* The process that makes the calls: the module loaded, nothing started.
Idle ==
    /\ Loaded
    /\ startup = <<"scheduler">>
    /\ supabase = FALSE
    /\ sensorDataMap = EmptyMap
    /\ origin = EmptyMap
    /\ lastRefresh = [time |-> 0, pos |-> 0]
    /\ rng \in 0..(Len(RandStream) - 1)
    /\ pc = "loop"
    /\ refreshers = 0

InitGen ==
    /\ Idle
    /\ probe \in GenCalls \cup SimulatorCalls

NextGen == Evaluate \/ SimulatorEvaluate

SpecGen == InitGen /\ [][NextGen]_vars

(***************************************************************************)
(* The calls of ConfigLoader made on their own.                            *)
(***************************************************************************)
\* One call of loadConfig.
LoadConfig(loader, file) ==
    LET r == loadConfig(config[loader], loader, file)
    IN  /\ probe' = [ fn |-> "loadConfig",
                      args |-> [loader |-> loader, file |-> file,
                                cached |-> config[loader]],
                      out |-> Some(r) ]
        /\ config' = [config EXCEPT ![loader] = r.cache]
        /\ UNCHANGED <<serverVars, rng, clientVars>>

\* clearCache (configLoader.ts 175-177).
ClearCache ==
    /\ config["client"] # NULL
    /\ config' = [config EXCEPT !["client"] = NULL]
    /\ probe' = [fn |-> "clearCache", args |-> [loader |-> "client"], out |-> NULL]
    /\ UNCHANGED <<serverVars, rng, clientVars>>

InitConfig ==
    /\ Idle
    /\ probe = NoProbe

Load == \E loader \in Loaders, file \in Files : LoadConfig(loader, file)

NextConfig == Load \/ ClearCache

SpecConfig == InitConfig /\ [][NextConfig]_vars

(***************************************************************************)
(* The settings dialog (configLoader.ts 137-140, 157-173; part_003 48-70): *)
(* updateRuntimeConfig with the fields the dialog passes, and the getter   *)
(* of the module count.  The call keeps whether it came right after a      *)
(* loadConfig of the client, as the dialog's does.                         *)
(***************************************************************************)
updateRuntimeConfig(cache, updates) ==
    IF cache = NULL THEN cache
    ELSE Some([cache[1] EXCEPT
                  !.count = IF updates.moduleCount # NULL
                            THEN updates.moduleCount[1] ELSE @,
                  !.auto_generate = IF updates.autoGenerate # NULL
                                    THEN updates.autoGenerate[1] ELSE @])

UpdateRuntimeConfig(updates) ==
    /\ config' = [config EXCEPT !["client"] = updateRuntimeConfig(@, updates)]
    /\ probe' = [ fn |-> "updateRuntimeConfig",
                  args |-> [ updates |-> updates,
                             loaded |-> /\ probe.fn = "loadConfig"
                                        /\ probe.args.loader = "client" ],
                  out |-> NULL ]
    /\ UNCHANGED <<serverVars, rng, clientVars>>

GetModuleCount(file) ==
    LET r == loadConfig(config["client"], "client", file)
    IN  /\ config' = [config EXCEPT !["client"] = r.cache]
        /\ probe' = [ fn |-> "getModuleCount",
                      args |-> [file |-> file, cached |-> config["client"]],
                      out |-> Some(r.config[1].count) ]
        /\ UNCHANGED <<serverVars, rng, clientVars>>

Update ==
    \E n \in {NULL, Some(1), Some(3)}, flag \in {NULL, Some(TRUE), Some(FALSE)} :
        UpdateRuntimeConfig([moduleCount |-> n, autoGenerate |-> flag])

ModuleCount == \E file \in Files : GetModuleCount(file)

NextRuntime == Load \/ ClearCache \/ Update \/ ModuleCount

SpecRuntime == InitConfig /\ [][NextRuntime]_vars

(***************************************************************************)
(* ModuleInitializer (moduleInitializer.ts): the client fills the          *)
(* datastore from the topology.  Each await is a step of its own.          *)
(***************************************************************************)
\* template.replace('{index}', (index + 1).toString()) of generateModuleName and
\* generateSensorName: the first placeholder is replaced, later ones stay.
generateModuleName(template, index) ==
    LET at == {p \in 1..Len(template) : template[p] = Placeholder}
    IN  IF at = {} THEN template
        ELSE LET first == CHOOSE p \in at : \A q \in at : p <= q
             IN  [p \in 1..Len(template) |->
                    IF p = first THEN Num(index + 1) ELSE template[p]]

\* The rows of sensorsToInsert (73-88) for the module row of the given id.
sensorsToInsert(template, index, id) ==
    [ n \in 1..Len(template.sensors) |->
        LET sensor == template.sensors[n]
        IN  [ module_id |-> id,
              name |-> generateModuleName(sensor.name, index),
              data_pattern |-> sensor.data_pattern,
              min_value |-> sensor.min_value,
              max_value |-> sensor.max_value,
              pattern_config |->
                  IF sensor.pattern_config # NULL THEN sensor.pattern_config[1]
                  ELSE PatternConfig(Fx(50), 2, 0, Fx(50)) ] ]

\* The catch of 47-50, and the returns of 13, 24 and 30.
Ended(k, toast) ==
    [initializers EXCEPT ![k].pc = "done", ![k].toast = toast]

\* Line 8: the invocation starts and awaits the topology.
InitializeFromConfig(k, file) ==
    LET r == loadConfig(config["client"], "client", file)
    IN  /\ initializers[k].pc = "idle"
        /\ config' = [config EXCEPT !["client"] = r.cache]
        /\ initializers' = [initializers EXCEPT ![k].pc = "loaded",
                                                ![k].config = r.config]
        /\ UNCHANGED <<serverVars, rng, probe, db>>

\* Lines 9-14: shouldAutoGenerate loads the topology again and answers from it.
ShouldAutoGenerate(k, file) ==
    LET r == loadConfig(config["client"], "client", file)
    IN  /\ initializers[k].pc = "loaded"
        /\ config' = [config EXCEPT !["client"] = r.cache]
        /\ initializers' = IF r.config[1].auto_generate
                           THEN [initializers EXCEPT ![k].pc = "check"]
                           ELSE Ended(k, "none")
        /\ UNCHANGED <<serverVars, rng, probe, db>>

\* Lines 17-45 up to the first insert: the select answers with an error or with
\* the rows there are; with none the loop starts.
CheckExisting(k, ok) ==
    /\ initializers[k].pc = "check"
    /\ initializers' =
          IF ~ok \/ Len(db.plc_modules) > 0 THEN Ended(k, "none")
          ELSE IF initializers[k].config[1].count = 0 THEN Ended(k, "success")
          ELSE [initializers EXCEPT ![k].pc = "module", ![k].i = 0]
    /\ UNCHANGED <<serverVars, rng, probe, config, db>>

\* Lines 38-42 and 56-68: the insert of the module row of iteration i.
CreateModule(k, ok) ==
    LET self == initializers[k]
        templates == self.config[1].templates
        template == templates[(self.i % Len(templates)) + 1]
        id == Len(db.plc_modules) + 1
    IN  /\ self.pc = "module"
        /\ IF ok
           THEN /\ db' = [db EXCEPT !.plc_modules =
                            Append(@, [ id |-> id,
                                        name |-> generateModuleName(template.name,
                                                                    self.i) ])]
                /\ initializers' = [initializers EXCEPT ![k].pc = "sensors",
                                                        ![k].moduleData = id]
           ELSE /\ initializers' = Ended(k, "error")
                /\ UNCHANGED db
        /\ UNCHANGED <<serverVars, rng, probe, config>>

\* Lines 73-96 and 38, 45: the insert of the module's sensor rows, then the next
\* iteration or the end of the loop.
CreateSensors(k, ok) ==
    LET self == initializers[k]
        templates == self.config[1].templates
        template == templates[(self.i % Len(templates)) + 1]
    IN  /\ self.pc = "sensors"
        /\ IF ok
           THEN /\ db' = [db EXCEPT !.sensors =
                            @ \o sensorsToInsert(template, self.i, self.moduleData)]
                /\ initializers' =
                      IF self.i + 1 < self.config[1].count
                      THEN [initializers EXCEPT ![k].pc = "module", ![k].i = self.i + 1]
                      ELSE Ended(k, "success")
           ELSE /\ initializers' = Ended(k, "error")
                /\ UNCHANGED db
        /\ UNCHANGED <<serverVars, rng, probe, config>>

Invoke == \E k \in 1..MaxInvocations, file \in Files : InitializeFromConfig(k, file)
AutoGenerate == \E k \in 1..MaxInvocations, file \in Files : ShouldAutoGenerate(k, file)
Check == \E k \in 1..MaxInvocations, ok \in BOOLEAN : CheckExisting(k, ok)
ModuleInsert == \E k \in 1..MaxInvocations, ok \in BOOLEAN : CreateModule(k, ok)
SensorsInsert == \E k \in 1..MaxInvocations, ok \in BOOLEAN : CreateSensors(k, ok)

NextClient == Invoke \/ AutoGenerate \/ Check \/ ModuleInsert \/ SensorsInsert

SpecClient == InitConfig /\ [][NextClient]_vars

(***************************************************************************)
(* Properties.                                                             *)
(***************************************************************************)
BothBounds(sensor) == sensor.min_value # NULL /\ sensor.max_value # NULL
RandOf(map, key, pos) == RandAt(pos + Cardinality(NoiseKeysBefore(map, key)))

\* C1: a Read of an address with a sensor is answered once, with success and the
\* sensor's stored value as a float32 (the stored value itself when it is a float32,
\* else the float32 next to it); a Read of an address without a sensor is answered
\* with SYMBOL_NOT_FOUND and no payload.
C1_ReadAnswer ==
    resp.kind = "Read" =>
        /\ resp.answers = 1
        /\ IF resp.key \in DOMAIN sensorDataMap
           THEN /\ resp.error = 0
                /\ resp.data # NULL
                /\ resp.data[1] % 2 = 0
                /\ resp.data[1] - sensorDataMap[resp.key].value \in {-1, 0, 1}
           ELSE /\ resp.error = SYMBOL_NOT_FOUND
                /\ resp.data = NULL

\* A Read answered with the float32 next to a stored value that is no float32.
C1_Witness ==
    /\ resp.kind = "Read" /\ resp.error = 0
    /\ sensorDataMap[resp.key].value % 2 = 1

\* C2: a DeleteNotification of a handle that AddNotification returned and that was
\* not deleted yet succeeds; every DeleteNotification of a handle deleted before
\* is answered with INVALID_NOTIFICATION_HANDLE.
C2_DeleteOnce ==
    [][ resp'.kind = "DeleteNotification" =>
          /\ ((\E i \in 1..Len(issued) : issued[i] = resp'.handle)
                /\ resp'.handle \notin deleted)
                => resp'.error = 0
          /\ resp'.handle \in deleted
                => resp'.error = INVALID_NOTIFICATION_HANDLE ]_vars

\* A second DeleteNotification of a handle, refused.
C2_Witness ==
    /\ resp.kind = "DeleteNotification"
    /\ resp.handle \in deleted
    /\ resp.error = INVALID_NOTIFICATION_HANDLE

\* C3: two consecutive notifications of one subscription are sent at least its
\* cycle time apart.
C3_MinSpacing ==
    \A r \in DOMAIN sent :
        Len(sent[r]) = 2 => sent[r][2] - sent[r][1] >= heap[r].cycleTime

\* C4: a Read of a sensor whose latest mutation is a Write of v returns v, also
\* when v is outside the sensor's range; a Read of a sensor whose latest mutation
\* is a refresher tick returns the value the refresher computed at that tick, and
\* not the out-of-range value written before.
C4_WriteThenRead ==
    (resp.kind = "Read" /\ resp.error = 0) =>
        LET sensor == sensorDataMap[resp.key]
            computed == generateSensorValue(sensor, lastRefresh.time,
                            RandOf(sensorDataMap, resp.key, lastRefresh.pos))
        IN  /\ origin[resp.key].by = "write"
                => resp.data = Some(origin[resp.key].value)
            /\ origin[resp.key].by = "refresher"
                => /\ resp.data = Some(writeFloatLE(computed))
                   /\ BothBounds(sensor) => resp.data # Some(Fx(150))

\* A Read that returns a written value above the sensor's maximum.
C4_Witness ==
    /\ resp.kind = "Read" /\ resp.error = 0
    /\ origin[resp.key].by = "write"
    /\ BothBounds(sensorDataMap[resp.key])
    /\ resp.data[1] > sensorDataMap[resp.key].max_value[1]

\* C5: no two successful AddNotification requests return the same handle, so a
\* deleted handle is not returned again.
C5_UniqueHandles ==
    \A i, j \in 1..Len(issued) : i # j => issued[i] # issued[j]

\* A handle returned after an earlier one was deleted.
C5_Witness ==
    /\ Len(issued) = 2
    /\ issued[1] \in deleted
    /\ resp.kind = "AddNotification" /\ resp.error = 0

\* C6: a request is answered exactly once, or its handler is suspended before
\* its answer.
C6_OneAnswer ==
    resp.kind # "none" => (resp.answers = 1 \/ resp.pending)

\* C7: a request answered with an error code changes no sensor, no subscription,
\* no handle counter and nothing else the server holds.
C7_ErrorChangesNothing ==
    [][ resp'.error # 0 =>
          UNCHANGED <<supabase, otherVars, sensorDataMap, subscribers, heap, nextHandle,
                      nextRef, now, rng, bootVars, ticks, writers>> ]_vars

\* A DeleteNotification of an unknown handle refused while a subscription exists.
C7_Witness ==
    /\ resp.kind = "DeleteNotification"
    /\ resp.error = INVALID_NOTIFICATION_HANDLE
    /\ Len(subscribers) > 0

\* C8: once the registry is built, the addresses with a sensor are the module
\* indices 1..N, N the number of modules in the registry, times the sensor
\* indices 1..3.
C8_DenseAddresses ==
    refreshers > 0 =>
        LET moduleCount ==
                Cardinality({sensorDataMap[k].module_id : k \in DOMAIN sensorDataMap})
        IN  DOMAIN sensorDataMap = (1..moduleCount) \X (1..3)

C10_WithinBounds ==
    \A k \in DOMAIN sensorDataMap :
        (BothBounds(sensorDataMap[k]) /\ origin[k].by # "write") =>
            /\ sensorDataMap[k].min_value[1] <= sensorDataMap[k].value
            /\ sensorDataMap[k].value <= sensorDataMap[k].max_value[1]

\* A sensor refreshed by a tick of the refresher, whose waveform is above its
\* maximum and whose value is the maximum.
C10_Witness ==
    \E k \in DOMAIN sensorDataMap :
        /\ BothBounds(sensorDataMap[k]) /\ origin[k].by = "refresher"
        /\ sensorDataMap[k].timestamp > Epoch
        /\ RawSensorValue(sensorDataMap[k], lastRefresh.time,
               RandOf(sensorDataMap, k, lastRefresh.pos)) > sensorDataMap[k].max_value[1]
        /\ sensorDataMap[k].value = sensorDataMap[k].max_value[1]

\* C11: whatever the waveform kind, the configuration and the time, a value
\* returned by the server's generator for a sensor with both bounds, or by the
\* simulator's generator, lies between the bounds.
C11_GeneratedWithinBounds ==
    /\ (probe.fn = "generateSensorValue" /\ probe.out # NULL
            /\ BothBounds(probe.args.sensor)) =>
          /\ probe.args.sensor.min_value[1] <= probe.out[1]
          /\ probe.out[1] <= probe.args.sensor.max_value[1]
    /\ (probe.fn = "simulator" /\ probe.out # NULL) =>
          /\ probe.args.minValue <= probe.out[1]
          /\ probe.out[1] <= probe.args.maxValue

\* A sensor of an unrecognised kind whose offset is below its minimum, evaluated
\* to the minimum.
C11_Witness ==
    /\ probe.fn = "generateSensorValue" /\ probe.out # NULL
    /\ BothBounds(probe.args.sensor)
    /\ probe.args.sensor.data_pattern \notin {"sine", "noise", "square"}
    /\ probe.args.sensor.pattern_config.dc_offset < probe.args.sensor.min_value[1]
    /\ probe.out = probe.args.sensor.min_value

\* C12: the subscribers array gets shorter only in a step that acknowledges a
\* DeleteNotification; a subscriber whose delivery has just failed stays in the
\* array with the time of that attempt as its last send time, and no scheduler
\* tick at which such a subscriber is due ends without a notification sent.
C12_FailureKeepsSubscription ==
    [][ /\ Len(subscribers') < Len(subscribers)
            => (resp'.kind = "DeleteNotification" /\ resp'.error = 0)
        /\ \A i \in 1..Len(subscribers) :
              subscribers[i] \in failed' \ failed =>
                  /\ \E j \in 1..Len(subscribers') : subscribers'[j] = subscribers[i]
                  /\ heap'[subscribers[i]].lastSendTime = now
        /\ (now' = now + 1 /\ pushed' = NoPush) =>
              \A i \in 1..Len(subscribers) :
                  subscribers[i] \in failed => ~Due(heap[subscribers[i]], now') ]_vars

\* A subscriber whose latest delivery failed is sent to again, a cycle time of
\* one scheduler period or more after the failed attempt.
C12_Witness ==
    \E i \in 1..Len(subscribers) :
        LET r == subscribers[i]
        IN  /\ r \in failed
            /\ pushed # NoPush
            /\ pushed[1].notificationHandle = heap[r].notificationHandle
            /\ heap[r].cycleTime > 0
            /\ Len(sent[r]) = 2
            /\ sent[r][2] - heap[r].lastSendTime >= heap[r].cycleTime

\* The calls of server.listen made so far: one per failed attempt, and the one
\* that is awaited or has succeeded.
BindAttempts == portIndex + (IF pc \in {"listen", "listening"} THEN 1 ELSE 0)

\* C13: startServer ends, with the server listening or with the process exited;
\* the process exits only after three failed attempts, a server that listens
\* keeps listening, and server.listen is never called more than three times.
C13_StartServerTerminates ==
    /\ <>(pc \in {"listening", "exited"})
    /\ [](BindAttempts <= 3)
    /\ [](pc = "exited" => (portIndex = 3 /\ retries = 0))
    /\ [](pc = "listening" => [](pc = "listening"))

\* The process exited after the third failed attempt, on the last candidate port.
C13_Witness ==
    /\ pc = "exited"
    /\ portIndex = 3
    /\ port = ports[3]

\* C14: a call of loadConfig, of either loader, raises nothing; when the file
\* cannot be read or does not parse and nothing is cached, it returns the
\* built-in default topology: one production-line template with a sine, a noise
\* and a square sensor.
C14_LoadConfigAbsorbs ==
    probe.fn = "loadConfig" =>
        /\ ~probe.out[1].raised
        /\ probe.out[1].config # NULL
        /\ (probe.args.cached = NULL /\ probe.args.file.kind # "ok") =>
              LET topology == probe.out[1].config[1]
              IN  /\ topology = getDefaultConfig(probe.args.loader)
                  /\ Len(topology.templates) = 1
                  /\ topology.templates[1].name[1] = Lit("Production Line ")
                  /\ [i \in 1..Len(topology.templates[1].sensors) |->
                         topology.templates[1].sensors[i].data_pattern]
                       = <<"sine", "noise", "square">>

\* The client's loader, nothing cached, given a file that does not parse.
C14_Witness ==
    /\ probe.fn = "loadConfig"
    /\ probe.args.loader = "client"
    /\ probe.args.cached = NULL
    /\ probe.args.file.kind = "malformed"
    /\ probe.out[1].config = Some(getDefaultConfig("client"))

\* C15: a Write to an address with a sensor that is answered, is answered with
\* success, however the datastore insert ended and also without a datastore;
\* the step that answers after the insert leaves the sensor map as it is, and
\* a sensor whose latest mutation is a Write holds the written value.
C15_SinkFailureAbsorbed ==
    /\ [][ (resp'.kind = "Write" /\ resp'.answers = 1
              /\ resp'.key \in DOMAIN sensorDataMap) =>
              /\ resp'.error = 0
              /\ resp'.sink # "none" => sensorDataMap' = sensorDataMap
              /\ resp'.sink = "none" =>
                    (~supabase /\ origin'[resp'.key].by = "write") ]_vars
    /\ [](\A k \in DOMAIN sensorDataMap :
             origin[k].by = "write" => sensorDataMap[k].value = origin[k].value)

\* A Write acknowledged with success after its insert was rejected, the written
\* value still in the sensor.
C15_Witness ==
    /\ resp.kind = "Write" /\ resp.answers = 1 /\ resp.error = 0
    /\ resp.sink = "throws"
    /\ origin[resp.key].by = "write"
    /\ sensorDataMap[resp.key].value = Fx(150)

\* C16: ReadDeviceInfo, ReadState and WriteControl are answered once and without
\* an error code, and change no sensor, no subscriber and no handle counter;
\* ReadDeviceInfo carries the name "Mock PLC Server" and version 1.0.1, ReadState
\* the state Run with device state 0.
C16_StaticRequests ==
    [][ resp'.kind \in {"ReadDeviceInfo", "ReadState", "WriteControl"} =>
          /\ resp'.answers = 1 /\ resp'.error = 0
          /\ UNCHANGED <<sensorDataMap, subscribers, heap, nextHandle>>
          /\ resp'.kind = "ReadDeviceInfo" =>
                resp'.info = Some([ deviceName |-> "Mock PLC Server", majorVersion |-> 1,
                                    minorVersion |-> 0, versionBuild |-> 1 ])
          /\ resp'.kind = "ReadState" =>
                resp'.info = Some([adsState |-> "Run", deviceState |-> 0]) ]_vars

\* ReadState answered with Run when the last subscriber has been deleted and a
\* sensor holds a written value.
C16_Witness ==
    /\ resp.kind = "ReadState"
    /\ resp.info = Some([adsState |-> "Run", deviceState |-> 0])
    /\ subscribers = <<>> /\ deleted # {}
    /\ \E k \in DOMAIN sensorDataMap : origin[k].by = "write"

\* C17: a ReadWrite of an address with a sensor is answered with the value a
\* Read of the address returns in that state, whatever write payload it came
\* with; a ReadWrite changes no sensor value or timestamp and nothing else the
\* server holds.
C17_ReadWriteReadsOnly ==
    [][ resp'.kind = "ReadWrite" =>
          /\ resp'.answers = 1
          /\ IF resp'.key \in DOMAIN sensorDataMap
             THEN /\ resp'.error = 0
                  /\ resp'.data = Some(writeFloatLE(sensorDataMap[resp'.key].value))
             ELSE /\ resp'.error = SYMBOL_NOT_FOUND
                  /\ resp'.data = NULL
          /\ UNCHANGED <<supabase, sensorDataMap, subscribers, heap, nextHandle,
                         nextRef, now, rng, bootVars, ticks, writers, config>> ]_vars

\* A ReadWrite that came with the payload 150 and is answered with another value,
\* the sensor's.
C17_Witness ==
    /\ resp.kind = "ReadWrite" /\ resp.error = 0
    /\ resp.written = Some(Fx(150))
    /\ resp.data # Some(Fx(150))
    /\ resp.data = Some(writeFloatLE(sensorDataMap[resp.key].value))

\* C18: the value of a square-wave sensor before the bounds are applied is
\* dc_offset + amplitude when the sine of frequency * time + phase_offset is
\* positive and dc_offset - amplitude otherwise, in the server's generator and
\* in the simulator's.
C18_SquareSymmetric ==
    /\ (probe.fn = "generateSensorValue" /\ probe.out # NULL
            /\ probe.args.sensor.data_pattern = "square") =>
          LET cfg == probe.args.sensor.pattern_config
              s == Sin8(cfg.frequency * probe.args.time + cfg.phase_offset)
          IN  probe.raw = Some(cfg.dc_offset
                                 + (IF s > 0 THEN cfg.amplitude ELSE -cfg.amplitude))
    /\ (probe.fn = "simulator" /\ probe.out # NULL /\ probe.args.pattern = "square") =>
          LET cfg == SimulatorConfig(probe.args.minValue, probe.args.maxValue,
                                     probe.args.patternConfig)
              s == Sin8(cfg.frequency * probe.args.time + cfg.phase_offset)
          IN  probe.raw = Some(cfg.dc_offset
                                 + (IF s > 0 THEN cfg.amplitude ELSE -cfg.amplitude))

\* C19: a call of the server's generator on a sine sensor returns a value fixed by
\* the sensor's configuration, its bounds and the time: it is the same for every
\* result Math.random() could give, the same as that of an earlier evaluation of
\* the same call, and the call takes nothing from the random stream.
C19_SineDeterministic ==
    [][ (probe.fn = "generateSensorValue" /\ probe.args.sensor.data_pattern = "sine") =>
          /\ rng' = rng
          /\ \A r \in 1..Len(RandStream) :
                probe'.out = Some(generateSensorValue(probe.args.sensor,
                                                      probe.args.time, RandStream[r]))
          /\ (probe.out # NULL => probe'.out = probe.out) ]_vars

C19_Witness ==
    /\ probe.fn = "generateSensorValue"
    /\ probe.args.sensor.data_pattern = "sine"
    /\ probe.args.sensor.pattern_config.amplitude > 0
    /\ probe.args.sensor.min_value # NULL
    /\ probe.args.time > 0
    /\ probe.out # NULL
    /\ rng = 2

\* C20: every module row whose creation has ended, with or without an error,
\* has exactly 3 sensor rows, whatever topology the loader returned.
C20_ThreeSensors ==
    \A m \in 1..Len(db.plc_modules) :
        (\A k \in 1..MaxInvocations :
            ~(initializers[k].pc = "sensors" /\ initializers[k].moduleData = m))
        => Cardinality({n \in 1..Len(db.sensors) : db.sensors[n].module_id = m}) = 3

\* C21: of the invocations of initializeFromConfig at most one inserts module
\* rows, under every interleaving of their steps, and the datastore never holds
\* more module rows than the count of the topology of an invocation that inserted.
C21_OneInitializer ==
    /\ Cardinality({k \in 1..MaxInvocations : initializers[k].moduleData # 0}) <= 1
    /\ \A k \in 1..MaxInvocations :
          initializers[k].moduleData # 0 =>
              Len(db.plc_modules) <= initializers[k].config[1].count

\* C22: no notification sent carries a handle whose DeleteNotification has been
\* acknowledged, also when the delete came while a scheduler callback was
\* suspended in a send.
C22_NoSendAfterDelete ==
    pushed # NoPush => pushed[1].notificationHandle \notin deleted

\* C23: a Write handler that has stored its value goes on to its acknowledgement
\* whether or not the datastore insert ever settles: no handler stays suspended
\* in the insert for ever.
C23_AckWithoutSink ==
    (writers # <<>>) ~> (writers = <<>>)

C25_OneRefresher ==
    Listening => refreshers = 1

\* C26: once the server listens, the value of a sensor changes only in a step of
\* the refresher or in a Write to the sensor's own address that found the sensor
\* and read its payload; Read, ReadWrite, AddNotification, DeleteNotification,
\* the scheduler's steps and a Write to another address leave it as it was, and
\* no step adds or removes a sensor.
C26_ValueWriters ==
    [][ /\ DOMAIN sensorDataMap' = DOMAIN sensorDataMap
        /\ \A k \in DOMAIN sensorDataMap :
              sensorDataMap'[k].value # sensorDataMap[k].value =>
                \/ /\ resp'.kind = "none" /\ pushed' = NoPush
                   /\ UNCHANGED <<now, subscriberVars, writers>>
                   /\ origin'[k].by = "refresher"
                \/ /\ resp'.kind = "Write" /\ resp'.key = k
                   /\ ~resp'.threw /\ resp'.error = 0
                   /\ resp'.sink = "none" ]_vars

C26_Witness ==
    /\ resp.kind = "Write" /\ resp.error = 0 /\ ~resp.threw /\ resp.sink = "none"
    /\ resp.key \in DOMAIN sensorDataMap
    /\ origin[resp.key].by = "write"
    /\ \E k \in DOMAIN sensorDataMap :
          /\ k # resp.key /\ k[1] = resp.key[1]
          /\ origin[k].by = "refresher"
          /\ sensorDataMap[k].value # sensorDataMap[resp.key].value

\* C27: value and timestamp of a sensor are always of the same update.  At every
\* point where a handler or a timer callback can run, a sensor whose value was
\* changed by the step just taken carries the time of that step, and a sensor
\* whose timestamp was changed carries the value that step gave it: the one the
\* refresher generated or the one the Write stored.
C27_NoHalfUpdate ==
    [][ \A k \in DOMAIN sensorDataMap :
          LET old == sensorDataMap[k]
              new == sensorDataMap'[k]
          IN  /\ new.value # old.value => new.timestamp = now
              /\ new.timestamp # old.timestamp =>
                    /\ new.timestamp = now
                    /\ \/ /\ resp'.kind = "Write" /\ resp'.key = k
                          /\ origin'[k] = [by |-> "write", value |-> new.value]
                       \/ /\ resp'.kind = "none"
                          /\ sensorDataMap' =
                                updateSensorData(sensorDataMap, lastRefresh'.time, now,
                                                 lastRefresh'.pos) ]_vars

C27_Witness ==
    /\ now > Epoch
    /\ supabase
    /\ resp.kind = "Write" /\ resp.pending
    /\ sensorDataMap[resp.key].timestamp = now
    /\ sensorDataMap[resp.key].value = origin[resp.key].value
    /\ \E k \in DOMAIN sensorDataMap : sensorDataMap[k].timestamp < now

\* C28: a subscriber object keeps its handle, its address, its target and its
\* cycle time from the AddNotification that made it for as long as it exists; the
\* only field that changes is lastSendTime, and only for the subscriber whose
\* send a suspended scheduler callback was awaiting, to the time the send settled.
C28_SubscriptionFrame ==
    [][ /\ \A r \in (DOMAIN heap) \cap (DOMAIN heap') :
              /\ [heap'[r] EXCEPT !.lastSendTime = 0] = [heap[r] EXCEPT !.lastSendTime = 0]
              /\ heap'[r].lastSendTime # heap[r].lastSendTime =>
                    /\ resp'.kind = "none"
                    /\ heap'[r].lastSendTime = now
                    /\ sent[r] # <<>>
                    /\ \E n \in 1..Len(ticks) : ArrayOf(ticks[n])[ticks[n].idx] = r
        /\ \A r \in (DOMAIN heap') \ (DOMAIN heap) :
              /\ resp'.kind = "AddNotification" /\ resp'.error = 0
              /\ heap'[r].notificationHandle = resp'.handle
              /\ <<heap'[r].indexGroup, heap'[r].indexOffset>> = resp'.key
              /\ heap'[r].lastSendTime = 0 ]_vars

C28_Witness ==
    \E i \in 1..Len(subscribers) :
        LET sub == heap[subscribers[i]]
        IN  /\ sub.lastSendTime > 0
            /\ sub.cycleTime = MaxCycleTime
            /\ sub.notificationHandle > 1
            /\ Len(sent[subscribers[i]]) = 2

\* C29: every subscriber of the array has a cycle time greater than zero.
C29_PositiveCycleTime ==
    \A i \in 1..Len(subscribers) : heap[subscribers[i]].cycleTime > 0

\* C30 as stated: for a sensor that lacks its minimum or its maximum the server's
\* generator returns the value of the waveform as it is.
C30_ClampOnlyWithBoth ==
    (probe.fn = "generateSensorValue" /\ probe.out # NULL
        /\ ~BothBounds(probe.args.sensor)) => probe.out = probe.raw

\* C30, amended: each bound is applied on its own.  The value returned is not
\* below a minimum the sensor has and not above a maximum it has; it differs
\* from the value of the waveform only where that value is beyond a bound the
\* sensor has, and then it is that bound; with neither bound it is the value of
\* the waveform.
C30_EachBoundOnItsOwn ==
    (probe.fn = "generateSensorValue" /\ probe.out # NULL) =>
        LET sensor == probe.args.sensor
            raw == probe.raw[1]
            out == probe.out[1]
        IN  /\ sensor.min_value # NULL => out >= sensor.min_value[1]
            /\ sensor.max_value # NULL => out <= sensor.max_value[1]
            /\ out # raw =>
                  \/ /\ sensor.min_value # NULL
                     /\ raw < sensor.min_value[1] /\ out = sensor.min_value[1]
                  \/ /\ sensor.max_value # NULL
                     /\ raw > sensor.max_value[1] /\ out = sensor.max_value[1]

C30_Witness ==
    /\ probe.fn = "generateSensorValue" /\ probe.out # NULL
    /\ probe.args.sensor.min_value # NULL
    /\ probe.args.sensor.max_value = NULL
    /\ probe.raw[1] < probe.args.sensor.min_value[1]
    /\ probe.out = probe.args.sensor.min_value

\* C31: a notification sent is that of a subscriber that is due when it is sent
\* (now - lastSendTime >= cycleTime): it carries the subscriber's handle, goes to
\* the subscriber's target and holds the bytes a Read of the subscriber's address
\* returns at that moment.  A scheduler tick at which a subscriber of the array is
\* due sends for the first of them; when the send a callback awaited has settled,
\* lastSendTime of its subscriber is the time of settling and the callback sends
\* for the next subscriber of its array that is due, so that every subscriber
\* that is due when the loop reaches it is sent to.
C31_DueIsDelivered ==
    [][ LET IsDue(sub, t) == t - sub.lastSendTime >= sub.cycleTime
            FirstDue(arr, from, t) ==
                {i \in from..Len(arr) :
                    /\ IsDue(heap[arr[i]], t)
                    /\ \A j \in from..(i - 1) : ~IsDue(heap[arr[j]], t)}
        IN  /\ pushed' # NoPush =>
                \E r \in DOMAIN heap' :
                    LET sub == heap'[r]
                    IN  /\ pushed'[1].notificationHandle = sub.notificationHandle
                        /\ pushed'[1].target = sub.target
                        /\ <<sub.indexGroup, sub.indexOffset>> \in DOMAIN sensorDataMap'
                        /\ Some(pushed'[1].data) =
                              Some(writeFloatLE(
                                  sensorDataMap'[<<sub.indexGroup, sub.indexOffset>>].value))
                        /\ IsDue(sub, now')
            /\ now' # now =>
                \A i \in FirstDue(subscribers, 1, now') :
                    /\ pushed' # NoPush
                    /\ pushed'[1].notificationHandle =
                          heap[subscribers[i]].notificationHandle
            /\ (now' = now /\ resp'.kind = "none" /\ ticks' # ticks) =>
                \E n \in 1..Len(ticks) :
                    LET arr == ArrayOf(ticks[n])
                        r == arr[ticks[n].idx]
                    IN  /\ r \in DOMAIN heap' => heap'[r].lastSendTime = now
                        /\ \A i \in FirstDue(arr, ticks[n].idx + 1, now) :
                              /\ pushed' # NoPush
                              /\ pushed'[1].notificationHandle =
                                    heap[arr[i]].notificationHandle
                              /\ ticks' = [ticks EXCEPT ![n].idx = i]
                        /\ FirstDue(arr, ticks[n].idx + 1, now) = {} =>
                              pushed' = NoPush /\ ticks' = RemoveAt(ticks, n) ]_vars

\* Two subscribers; the send for the first has settled and the callback has sent
\* for the second, while the first has its lastSendTime.
C31_Witness ==
    /\ Len(subscribers) = 2
    /\ heap[subscribers[1]].lastSendTime = now
    /\ pushed # NoPush
    /\ pushed[1].notificationHandle = heap[subscribers[2]].notificationHandle
    /\ \E n \in 1..Len(ticks) : ticks[n].live /\ ticks[n].idx = 2

\* C32: within one scheduler callback the subscribers due are sent to in the
\* order of their creation.  The array the callback walks, and every array a
\* delete has replaced, holds the subscribers in the order their handles were
\* given out; a callback begins with the first created subscriber that is due,
\* and each later send of the same callback is for a subscriber created after
\* the one it sent for before, with no due subscriber between the two.
C32_CreationOrder ==
    [][ LET Handle(r) == heap[r].notificationHandle
            Ordered(arr) ==
                \A i, j \in 1..Len(arr) : i < j => Handle(arr[i]) < Handle(arr[j])
            Skipped(arr, from, to, t) ==
                \A j \in from..(to - 1) :
                    t - heap[arr[j]].lastSendTime < heap[arr[j]].cycleTime
        IN  /\ Ordered(subscribers)
            /\ \A n \in 1..Len(ticks) : Ordered(ArrayOf(ticks[n]))
            /\ Len(ticks') > Len(ticks) =>
                  LET tick == ticks'[Len(ticks')]
                  IN  /\ pushed'[1].notificationHandle = Handle(subscribers[tick.idx])
                      /\ Skipped(subscribers, 1, tick.idx, now')
            /\ (Len(ticks') = Len(ticks) /\ ticks' # ticks /\ pushed' # NoPush) =>
                  \E n \in 1..Len(ticks) :
                      LET arr == ArrayOf(ticks[n])
                          before == ticks[n].idx
                          after == ticks'[n].idx
                      IN  /\ ticks' = [ticks EXCEPT ![n].idx = after]
                          /\ before < after
                          /\ pushed'[1].notificationHandle = Handle(arr[after])
                          /\ Handle(arr[before]) < Handle(arr[after])
                          /\ Skipped(arr, before + 1, after, now) ]_vars

\* One callback has sent for the subscriber of handle 1 and then for that of
\* handle 2, both due at its tick.
C32_Witness ==
    /\ Len(subscribers) = 2
    /\ heap[subscribers[1]].notificationHandle = 1
    /\ heap[subscribers[2]].notificationHandle = 2
    /\ sent[subscribers[1]] # <<>>
    /\ sent[subscribers[2]] # <<>>
    /\ Len(ticks) = 1
    /\ ticks[1].idx = 2
    /\ pushed # NoPush
    /\ pushed[1].notificationHandle = 2

\* C33: a new subscriber is sent its first notification at the first scheduler
\* tick after its AddNotification, whatever its cycle time: a subscriber that has
\* not been deleted has a notification sent by the time of that tick, so none is
\* still without one when a second tick has passed.
C33_FirstTickDelivers ==
    \A i \in 1..Len(issued) :
        \A r \in DOMAIN heap :
            (heap[r].notificationHandle = issued[i] /\ issued[i] \notin deleted) =>
                /\ sent[r] = <<>> => now <= created[i] + 1
                /\ Len(sent[r]) = 1 => sent[r][1] <= created[i] + 1

\* C34: every subscriber of the array, and every subscriber a suspended callback
\* still holds, has the address of a sensor of the registry, in every state; no
\* step takes a sensor out of the registry.
C34_SubscribedSensorExists ==
    [][ LET Known(r) ==
                <<heap'[r].indexGroup, heap'[r].indexOffset>> \in DOMAIN sensorDataMap'
        IN  /\ \A i \in 1..Len(subscribers') : Known(subscribers'[i])
            /\ \A r \in DOMAIN heap' : Known(r)
            /\ DOMAIN sensorDataMap \subseteq DOMAIN sensorDataMap' ]_vars

\* One subscription stands and a request for an address without a sensor has
\* just been refused.
C34_Witness ==
    /\ Len(subscribers) = 1
    /\ resp.kind = "AddNotification"
    /\ resp.error = SYMBOL_NOT_FOUND
    /\ <<6, 1>> \notin DOMAIN sensorDataMap

\* C35: the k-th call of server.listen is made on the k-th port of the list: a
\* bind that begins after j failures uses ports[j + 1], which is none of the j
\* ports that failed, and each failure moves one port on.  The 2 s sleep is
\* entered only from a failed bind that leaves a port and a retry, so never
\* after the last failure, and it is always followed by the next attempt.
C35_PortsInOrderOnce ==
    [][ LET Failed(j) == {ports[k] : k \in 1..j}
        IN  /\ (pc # "listen" /\ pc' = "listen") =>
                  /\ pc \in {"loop", "select"}
                  /\ port' = ports[portIndex' + 1]
                  /\ port' \notin Failed(portIndex')
            /\ pc' \in {"listen", "listening"} => port' = ports[BindAttempts']
            /\ (pc = "listen" /\ pc' \notin {"listen", "listening"}) =>
                  /\ portIndex' = portIndex + 1
                  /\ port = ports[portIndex']
                  /\ pc' = IF portIndex' = Len(ports) \/ retries' = 0
                           THEN "exited" ELSE "sleep"
            /\ pc' = "sleep" =>
                  /\ pc \in {"listen", "sleep"}
                  /\ portIndex' < Len(ports) /\ retries' > 0
            /\ (pc = "sleep" /\ pc' # "sleep") => pc' = "loop"
            /\ pc = "exited" => pc' = "exited" ]_vars

\* The third attempt, on the third port, has succeeded after two failures.
C35_Witness ==
    /\ pc = "listening"
    /\ portIndex = 2
    /\ retries = 1
    /\ port = ports[3]

\* C36: a call of loadConfig that finds a cached configuration returns it
\* without reading the file and leaves the cache as it is, whatever the file
\* holds by then; a call that finds no cache reads the file, and caches what it
\* read only if the read succeeded: after a failed load the cache is still
\* empty, so that the next call reads the file again.
C36_LoadConfigCached ==
    [][ probe'.fn = "loadConfig" =>
            LET loader == probe'.args.loader
                file == probe'.args.file
                cached == probe'.args.cached
                out == probe'.out[1]
            IN  /\ cached = config[loader]
                /\ cached # NULL =>
                      /\ ~out.read
                      /\ out.config = cached
                      /\ config'[loader] = cached
                /\ cached = NULL =>
                      /\ out.read
                      /\ file.kind = "ok" =>
                            /\ config'[loader] = file.topology
                            /\ out.config = file.topology
                      /\ file.kind # "ok" => config'[loader] = NULL
                /\ \A other \in Loaders \ {loader} : config'[other] = config[other]
      ]_vars

\* A call made with a configuration cached, when the file holds another one.
C36_Witness ==
    /\ probe.fn = "loadConfig"
    /\ probe.args.cached # NULL
    /\ probe.args.file.kind = "ok"
    /\ probe.args.file.topology # probe.args.cached
    /\ probe.out[1].config = probe.args.cached
    /\ ~probe.out[1].read

\* C37: after the configuration has been loaded, a getModuleCount() that
\* follows updateRuntimeConfig({moduleCount: n}) returns n, whether the load
\* read the configuration from the file or failed and handed out the built-in
\* default.
C37_UpdateThenGet ==
    [][ ( /\ probe.fn = "updateRuntimeConfig"
          /\ probe.args.loaded
          /\ probe.args.updates.moduleCount # NULL
          /\ probe'.fn = "getModuleCount" )
            => probe'.out = probe.args.updates.moduleCount ]_vars

\* C38: a sensor whose template carries no pattern_config is given a default
\* derived from its range: a dc_offset at the midpoint of [min_value, max_value]
\* and an amplitude in one proportion to max_value - min_value for all such
\* sensors.  Stated of the sensor rows initializeFromConfig inserts.
C38_DefaultFromRange ==
    LET Topologies == FileTopologies \cup {getDefaultConfig("client")}
        Defaulted(row) ==
            \E t \in Topologies :
                \E m \in 1..Len(t.templates) :
                    \E n \in 1..Len(t.templates[m].sensors) :
                        LET sensor == t.templates[m].sensors[n]
                        IN  /\ sensor.pattern_config = NULL
                            /\ sensor.data_pattern = row.data_pattern
                            /\ sensor.min_value = row.min_value
                            /\ sensor.max_value = row.max_value
        Range(row) == row.max_value - row.min_value
        Inserted == {db.sensors[i] : i \in 1..Len(db.sensors)}
    IN  \A a \in Inserted :
            Defaulted(a) =>
                /\ 2 * a.pattern_config.dc_offset = a.min_value + a.max_value
                /\ \A b \in Inserted :
                      Defaulted(b) =>
                          a.pattern_config.amplitude * Range(b)
                              = b.pattern_config.amplitude * Range(a)

\* C39: the module numbered i, for i in 1..count, is built from
\* templates[i mod Len(templates)] (templates counted from 0), its name and the
\* names of its sensors are those of the template with every {index} placeholder
\* replaced by i, and a build that ends with success has built exactly count
\* modules.
C39_BuildFromTemplates ==
    [][ \A k \in 1..MaxInvocations :
            LET self == initializers[k]
                after == initializers'[k]
                number == self.i + 1
                EveryReplaced(name) ==
                    [p \in 1..Len(name) |->
                        IF name[p] = Placeholder THEN Num(number) ELSE name[p]]
                Stated(topology) ==
                    topology.templates[(number % Len(topology.templates)) + 1]
            IN  /\ (self.pc = "module" /\ after.pc = "sensors") =>
                      db'.plc_modules[Len(db'.plc_modules)].name
                          = EveryReplaced(Stated(self.config[1]).name)
                /\ (self.pc = "sensors" /\ after.pc # "sensors"
                        /\ db'.sensors # db.sensors) =>
                      LET template == Stated(self.config[1])
                      IN  /\ Len(db'.sensors) = Len(db.sensors) + Len(template.sensors)
                          /\ \A n \in 1..Len(template.sensors) :
                                db'.sensors[Len(db.sensors) + n].name
                                    = EveryReplaced(template.sensors[n].name)
                /\ (self.pc = "sensors" /\ after.pc = "done"
                        /\ after.toast = "success") =>
                      number = self.config[1].count ]_vars

====
